---- MODULE Spec2Model ----
(***************************************************************************)
(* A model of openscm_units.ScmUnitRegistry: the unit table filled by      *)
(* add_standards(), the lazily built conversion contexts, scoped context   *)
(* activation, conversion of quantities and split_gas_mixture().           *)
(*                                                                         *)
(* Magnitudes are exact rationals <<n, d>> (d > 0, lowest terms); the      *)
(* program computes them in binary floating point, so every equality of    *)
(* magnitudes below is an equality up to floating-point rounding.          *)
(***************************************************************************)
EXTENDS Integers, Sequences, FiniteSets, TLC

VARIABLES
  mixtures,           \* the table MIXTURES of data/mixtures.py the package was loaded with
  metric_conversions, \* self._metric_conversions: "None" or the name of a table
  units,              \* the registry's unit table: name -> definition
  contexts,           \* the registry's context table: name -> transformations
  contexts_added,     \* self._contexts_added
  active,             \* the stack of active contexts, most recent first
  blocks,             \* the open `with registry.context(...)` blocks: names each enabled
  builds,             \* how many runs of _add_contexts have completed on this registry
  last                \* the most recent call and its outcome

vars == <<mixtures, metric_conversions, units, contexts, contexts_added, active, blocks, builds, last>>

-----------------------------------------------------------------------------
(* Bounds of the model.                                                    *)

\* deepest nesting of context blocks
MaxDepth == 2
\* completed runs of _add_contexts counted up to this many
MaxBuilds == 2

-----------------------------------------------------------------------------
(* Evaluation helpers.                                                     *)

\* S as an enumerated set
Enum(S) == {x : x \in S}

\* Op(v), with v evaluated once
Let(v, Op(_)) == CHOOSE r \in {Op(x) : x \in {v}} : TRUE

-----------------------------------------------------------------------------
(* Rational arithmetic.                                                    *)

Abs(x) == IF x < 0 THEN -x ELSE x

RECURSIVE GCD(_, _)
GCD(a, b) == IF b = 0 THEN a ELSE GCD(b, a % b)

Norm(n, d) ==
  Let(GCD(Abs(n), Abs(d)), LAMBDA g :
    IF d < 0 THEN <<(-n) \div g, (-d) \div g>> ELSE <<n \div g, d \div g>>)

One == <<1, 1>>

\* float("nan"): it propagates through every operation.
NaN == <<0, 0>>

isnan(x) == x[2] = 0

\* the product, cancelling across before multiplying
RMulV(x, y) ==
  IF isnan(x) \/ isnan(y) THEN NaN
  ELSE Let(Norm(x[1], y[2]), LAMBDA a :
         Let(Norm(y[1], x[2]), LAMBDA b : Norm(a[1] * b[1], a[2] * b[2])))

RMul(x, y) == Let(x, LAMBDA xv : Let(y, LAMBDA yv : RMulV(xv, yv)))

RInv(x) == Let(x, LAMBDA xv : IF isnan(xv) THEN NaN ELSE Norm(xv[2], xv[1]))

RDiv(x, y) == RMul(x, RInv(y))

RAddV(x, y) ==
  IF isnan(x) \/ isnan(y) THEN NaN
  ELSE Norm(x[1] * y[2] + y[1] * x[2], x[2] * y[2])

RAdd(x, y) == Let(x, LAMBDA xv : Let(y, LAMBDA yv : RAddV(xv, yv)))

RECURSIVE RPow(_, _)
RPow(x, e) ==
  IF e = 0 THEN One
  ELSE IF e < 0 THEN RPow(RInv(x), -e)
  ELSE RMul(x, RPow(x, e - 1))

-----------------------------------------------------------------------------
(* Units containers: a product of named units (or of dimension tags), as a *)
(* function from name to non-zero exponent.                                *)

NoUnits == [x \in {} |-> 0]

Exp(uc, x) == IF x \in DOMAIN uc THEN uc[x] ELSE 0

UCMulV(a, b) ==
  [x \in {y \in Enum(DOMAIN a \cup DOMAIN b) : Exp(a, y) + Exp(b, y) # 0}
     |-> Exp(a, x) + Exp(b, x)]

UCMul(a, b) == Let(a, LAMBDA av : Let(b, LAMBDA bv : UCMulV(av, bv)))

UCPow(a, e) == Let(a, LAMBDA av : [x \in {y \in DOMAIN av : av[y] * e # 0} |-> av[x] * e])

UCDiv(a, b) == UCMul(a, UCPow(b, -1))

U(name) == [x \in {name} |-> 1]

-----------------------------------------------------------------------------
(* Unit definitions.  A definition is either a base unit introducing a     *)
(* dimension tag, or a factor times a product of other units.              *)

BaseDef(dim) == [base |-> TRUE, dim |-> dim, f |-> One, ref |-> NoUnits]

DerivedDef(f, ref) == [base |-> FALSE, dim |-> "", f |-> f, ref |-> ref]

Def(name, d) == [name |-> name, def |-> d]

\* The units of the engine's default registry that the model uses.
\* kt is the knot there: 1852 m / 3600 s.
DefaultUnits ==
  [n \in {"g", "kg", "t", "s", "year", "m", "kt"} |->
     CASE n = "g"    -> BaseDef("[mass]")
       [] n = "kg"   -> DerivedDef(<<1000, 1>>, U("g"))
       [] n = "t"    -> DerivedDef(<<1000, 1>>, U("kg"))
       [] n = "s"    -> BaseDef("[time]")
       [] n = "year" -> DerivedDef(<<31557600, 1>>, U("s"))
       [] n = "m"    -> BaseDef("[length]")
       [] n = "kt"   -> DerivedDef(<<1852, 3600>>, UCDiv(U("m"), U("s")))]

\* An entry of a gas table whose value is a str: a base gas unit.
Str(symbol, value) ==
  [symbol |-> symbol, isstr |-> TRUE, value |-> value,
   f |-> One, ref |-> "", aliases |-> <<>>]

\* An entry whose value is a list: "f * ref" and the aliases.
Lst(symbol, f, ref, aliases) ==
  [symbol |-> symbol, isstr |-> FALSE, value |-> "",
   f |-> f, ref |-> ref, aliases |-> aliases]

\* The entries of _STANDARD_GASES that the model keeps, in table order.
STANDARD_GASES ==
  << Str("C", "carbon"),
     Lst("CO2", <<12, 44>>, "C", <<"carbon_dioxide">>),
     Str("CH4", "methane"),
     Str("N2O", "nitrous_oxide"),
     Lst("N2ON", <<44, 28>>, "N2O", <<"nitrous_oxide_farming_style">>),
     Str("N", "nitrogen"),
     Lst("NO2", <<14, 46>>, "N", <<"nitrogen_dioxide">>),
     Str("NOx", "NOx"),
     Lst("nox", One, "NOx", <<>>),
     Str("NH3", "NH3"),
     Str("CFC12", "CFC12"),
     Str("CFC114", "CFC114"),
     Str("HFC32", "HFC32"),
     Str("HFC125", "HFC125"),
     Str("HFC134a", "HFC134a") >>

\* A constituent of a mixture: (species, mass fraction in percent).
Part(species, pct) == [species |-> species, pct |-> pct]

\* The mixtures of data/mixtures.py that the model keeps, in table order.
MixtureNames == <<"CFC400", "HFC407a">>

\* the table as shipped: the fractions of each mixture sum to 100
ShippedMixtures ==
  [m \in {"CFC400", "HFC407a"} |->
     CASE m = "CFC400"  -> << Part("CFC12", <<50, 1>>), Part("CFC114", <<50, 1>>) >>
       [] m = "HFC407a" -> << Part("HFC32", <<20, 1>>), Part("HFC125", <<40, 1>>),
                              Part("HFC134a", <<40, 1>>) >>]

\* a table of the same mixtures in which the fractions of CFC400 sum to 90
MalformedMixtures ==
  [m \in {"CFC400", "HFC407a"} |->
     CASE m = "CFC400"  -> << Part("CFC12", <<50, 1>>), Part("CFC114", <<40, 1>>) >>
       [] m = "HFC407a" -> << Part("HFC32", <<20, 1>>), Part("HFC125", <<40, 1>>),
                              Part("HFC134a", <<40, 1>>) >>]

\* from .data.mixtures import MIXTURES
MIXTURES == mixtures

\* str.upper() on the symbols of the tables.
Upper(s) ==
  CASE s = "NOx"     -> "NOX"
    [] s = "nox"     -> "NOX"
    [] s = "HFC134a" -> "HFC134A"
    [] s = "HFC407a" -> "HFC407A"
    [] OTHER         -> s

\* _add_mass_emissions_joint_version with the tonne unit built on kg
add_mass_emissions_joint_version_on_kg(symbol) ==
  << Def("g" \o symbol, DerivedDef(One, UCMul(U("g"), U(symbol)))),
     Def("t" \o symbol, DerivedDef(One, UCMul(U("kg"), U(symbol)))) >>

add_mass_emissions_joint_version(symbol) ==
  << Def("g" \o symbol, DerivedDef(One, UCMul(U("g"), U(symbol)))),
     Def("t" \o symbol, DerivedDef(One, UCMul(U("t"), U(symbol)))) >>

RECURSIVE AliasDefs(_, _)
AliasDefs(aliases, symbol) ==
  IF aliases = <<>> THEN <<>>
  ELSE <<Def(Head(aliases), DerivedDef(One, U(symbol)))>>
         \o AliasDefs(Tail(aliases), symbol)

\* _add_gases with every string-valued gas put on the dimension [carbon]
GasDefs_on_carbon(e) ==
  (IF e.isstr
     THEN <<Def(e.symbol, BaseDef("[carbon]"))>>
            \o (IF e.value # e.symbol
                  THEN <<Def(e.value, DerivedDef(One, U(e.symbol)))>>
                  ELSE <<>>)
     ELSE <<Def(e.symbol, DerivedDef(e.f, U(e.ref)))>>
            \o AliasDefs(e.aliases, e.symbol))
  \o add_mass_emissions_joint_version(e.symbol)
  \o (IF Upper(e.symbol) # e.symbol
        THEN <<Def(Upper(e.symbol), DerivedDef(One, U(e.symbol)))>>
               \o add_mass_emissions_joint_version(Upper(e.symbol))
        ELSE <<>>)

\* _add_gases with a dimension of its own given to every symbol, those with a
\* conversion included
GasDefs_own_dimension(e) ==
  (IF e.isstr
     THEN <<Def(e.symbol, BaseDef("[" \o e.value \o "]"))>>
            \o (IF e.value # e.symbol
                  THEN <<Def(e.value, DerivedDef(One, U(e.symbol)))>>
                  ELSE <<>>)
     ELSE <<Def(e.symbol, BaseDef("[" \o e.symbol \o "]"))>>
            \o AliasDefs(e.aliases, e.symbol))
  \o add_mass_emissions_joint_version(e.symbol)
  \o (IF Upper(e.symbol) # e.symbol
        THEN <<Def(Upper(e.symbol), DerivedDef(One, U(e.symbol)))>>
               \o add_mass_emissions_joint_version(Upper(e.symbol))
        ELSE <<>>)

\* _add_gases without the alias for the upper case symbol
GasDefs_without_upper(e) ==
  (IF e.isstr
     THEN <<Def(e.symbol, BaseDef("[" \o e.value \o "]"))>>
            \o (IF e.value # e.symbol
                  THEN <<Def(e.value, DerivedDef(One, U(e.symbol)))>>
                  ELSE <<>>)
     ELSE <<Def(e.symbol, DerivedDef(e.f, U(e.ref)))>>
            \o AliasDefs(e.aliases, e.symbol))
  \o add_mass_emissions_joint_version(e.symbol)

\* The define() calls that one pass of the loop of _add_gases makes.
GasDefs(e) ==
  (IF e.isstr
     THEN <<Def(e.symbol, BaseDef("[" \o e.value \o "]"))>>
            \o (IF e.value # e.symbol
                  THEN <<Def(e.value, DerivedDef(One, U(e.symbol)))>>
                  ELSE <<>>)
     ELSE <<Def(e.symbol, DerivedDef(e.f, U(e.ref)))>>
            \o AliasDefs(e.aliases, e.symbol))
  \o add_mass_emissions_joint_version(e.symbol)
  \o (IF Upper(e.symbol) # e.symbol
        THEN <<Def(Upper(e.symbol), DerivedDef(One, U(e.symbol)))>>
               \o add_mass_emissions_joint_version(Upper(e.symbol))
        ELSE <<>>)

RECURSIVE add_gases(_)
add_gases(gases) ==
  IF gases = <<>> THEN <<>>
  ELSE GasDefs(Head(gases)) \o add_gases(Tail(gases))

RECURSIVE MixtureGases(_)
MixtureGases(names) ==
  IF names = <<>> THEN <<>>
  ELSE <<Str(Head(names), Head(names))>> \o MixtureGases(Tail(names))

\* The define() calls of add_standards(), in order.
StandardDefs ==
  add_gases(STANDARD_GASES)
  \o add_gases(MixtureGases(MixtureNames))
  \o << Def("a", DerivedDef(One, U("year"))),
        Def("yr", DerivedDef(One, U("a"))),
        Def("kt", DerivedDef(<<1000, 1>>, U("t"))) >>

define(tab, d) ==
  [n \in Enum(DOMAIN tab \cup {d.name}) |-> IF n = d.name THEN d.def ELSE tab[n]]

\* define() applied to each of defs in order: the last definition of a name stays
DefineAll(tab, defs) ==
  LET names   == {defs[i].name : i \in 1..Len(defs)}
      final(n) == CHOOSE i \in 1..Len(defs) :
                    /\ defs[i].name = n
                    /\ \A j \in (i + 1)..Len(defs) : defs[j].name # n
  IN  [n \in Enum(DOMAIN tab \cup names) |->
         IF n \in names THEN defs[final(n)].def ELSE tab[n]]

StandardUnits == DefineAll(DefaultUnits, StandardDefs)

\* the engine's policy on redefinition with "raise" given to the constructor
on_redefinition_raise == "raise"

\* the engine's policy on the definition of a name it already has: the
\* constructor passes none on, so the engine's default, which logs a warning
on_redefinition == "warn"

\* the define() calls of defs that name a unit defined by then
Redefinitions(tab, defs) ==
  {i \in 1..Len(defs) :
     \/ defs[i].name \in DOMAIN tab
     \/ \E j \in 1..(i - 1) : defs[j].name = defs[i].name}

\* the outcome of a run of define() calls
Defining(err, tab, redefined) == [err |-> err, units |-> tab, redefined |-> redefined]

\* define() for each of defs in order under the engine's policy: with "raise"
\* the first redefinition raises and the definitions before it stay
define_each(tab, defs) ==
  Let(Redefinitions(tab, defs), LAMBDA again :
    IF on_redefinition = "raise" /\ again # {}
      THEN Defining("RedefinitionError",
                    DefineAll(tab, SubSeq(defs, 1,
                                          (CHOOSE i \in again : \A j \in again : i <= j) - 1)),
                    1)
      ELSE Defining("", DefineAll(tab, defs), Cardinality(again)))

-----------------------------------------------------------------------------
(* The engine's resolution of a units container to root (base) units and   *)
(* to a dimensionality.                                                    *)

Root(f, uc) == [f |-> f, uc |-> uc]

RECURSIVE get_root_units(_, _)
get_root_units(tab, uc) ==
  IF DOMAIN uc = {} THEN Root(One, NoUnits)
  ELSE Let(CHOOSE x \in DOMAIN uc : TRUE, LAMBDA n :
         Let(get_root_units(tab, [x \in Enum(DOMAIN uc \ {n}) |-> uc[x]]), LAMBDA rest :
           Let(IF tab[n].base THEN Root(One, U(n)) ELSE get_root_units(tab, tab[n].ref),
               LAMBDA r :
             Root(RMul(RPow(RMul(tab[n].f, r.f), uc[n]), rest.f),
                  UCMul(UCPow(r.uc, uc[n]), rest.uc)))))

RECURSIVE DimOfRoot(_, _)
DimOfRoot(tab, uc) ==
  IF DOMAIN uc = {} THEN NoUnits
  ELSE Let(CHOOSE x \in DOMAIN uc : TRUE, LAMBDA n :
         Let(DimOfRoot(tab, [x \in Enum(DOMAIN uc \ {n}) |-> uc[x]]), LAMBDA rest :
           UCMul(UCPow(U(tab[n].dim), uc[n]), rest)))

get_dimensionality(tab, uc) ==
  Let(get_root_units(tab, uc).uc, LAMBDA root : DimOfRoot(tab, root))

Defined(tab, uc) == DOMAIN uc \subseteq DOMAIN tab

-----------------------------------------------------------------------------
(* Quantities, and the four unit shapes a transformation is registered at. *)

Q(m, uc) == [m |-> m, uc |-> uc]

Fmt(mass, time) == [mass |-> mass, time |-> time]

\* the list of formatters without its last entry, "{} / [time]"
formatters_without_rate == << Fmt(0, 0), Fmt(1, -1), Fmt(1, 0) >>

\* "{}", "[mass] * {} / [time]", "[mass] * {}", "{} / [time]"
formatters == << Fmt(0, 0), Fmt(1, -1), Fmt(1, 0), Fmt(0, -1) >>

\* fmt_str.format(dim), parsed to a dimensionality
Format(fmt, dim) ==
  UCMul(UCMul(UCPow(U("[mass]"), fmt.mass), U(dim)), UCPow(U("[time]"), fmt.time))

-----------------------------------------------------------------------------
(* Contexts.  A context maps a key (source dimensionality, destination     *)
(* dimensionality) to a transformation function; the function is kept as   *)
(* the values its closure captured.                                        *)

Transformation(src, dst, a, b, conv, forward) ==
  [src |-> src, dst |-> dst, a |-> a, b |-> b, conv |-> conv, forward |-> forward]

\* Context.add_transformation: funcs[(src, dst)] = func
add_transformation(context, t) ==
  {x \in context : ~(x.src = t.src /\ x.dst = t.dst)} \cup {t}

\* The add_transformation calls of one pass of the loop over formatters.
ShapeRegistrations(fmt, base_unit, base_unit_ureg, other_unit, other_unit_ureg, conv_val) ==
  << Transformation(Format(fmt, base_unit), Format(fmt, other_unit),
                    base_unit_ureg, other_unit_ureg, conv_val, TRUE),
     Transformation(Format(fmt, other_unit), Format(fmt, base_unit),
                    base_unit_ureg, other_unit_ureg, conv_val, FALSE) >>

\* Every add_transformation call of _add_transformations_to_context, in order.
Registrations(base_unit, base_unit_ureg, other_unit, other_unit_ureg, conv_val) ==
  [k \in 1..(2 * Len(formatters)) |->
     ShapeRegistrations(formatters[(k + 1) \div 2], base_unit, base_unit_ureg,
                        other_unit, other_unit_ureg, conv_val)[2 - (k % 2)]]

SameKey(x, y) == x.src = y.src /\ x.dst = y.dst

\* add_transformation applied to each of ts in order: the last registration
\* of a key stays
AddAll(context, ts) ==
  Let(ts, LAMBDA v :
    Enum({x \in context : \A i \in 1..Len(v) : ~SameKey(x, v[i])}
         \cup {v[k] : k \in {i \in 1..Len(v) :
                               \A j \in (i + 1)..Len(v) : ~SameKey(v[i], v[j])}}))

add_transformations_to_context(context, base_unit, base_unit_ureg, other_unit, other_unit_ureg, conv_val) ==
  AddAll(context,
         Registrations(base_unit, base_unit_ureg, other_unit, other_unit_ureg, conv_val))

\* result_backward multiplying by conv_val as result_forward does
Apply_backward_multiplies(t, strt) ==
  IF t.forward
    THEN Q(RMul(strt.m, t.conv), UCMul(strt.uc, UCDiv(U(t.b), U(t.a))))
    ELSE Q(RMul(strt.m, t.conv), UCMul(strt.uc, UCDiv(U(t.a), U(t.b))))

\* result_forward / result_backward applied to the quantity strt
Apply(t, strt) ==
  IF t.forward
    THEN Q(RMul(strt.m, t.conv), UCMul(strt.uc, UCDiv(U(t.b), U(t.a))))
    ELSE Q(RDiv(strt.m, t.conv), UCMul(strt.uc, UCDiv(U(t.a), U(t.b))))

-----------------------------------------------------------------------------
(* split_gas_mixture                                                       *)

\* x[1:-1] for a dimension tag x that names a mixture, "" for any other tag
MixtureOf(x) ==
  IF \E m \in DOMAIN MIXTURES : "[" \o m \o "]" = x
    THEN CHOOSE m \in DOMAIN MIXTURES : "[" \o m \o "]" = x
    ELSE ""

SplitResult(err, exp, ret) == [err |-> err, exp |-> exp, ret |-> ret]

\* the list of constituents with each fraction_pct divided by the total of the
\* mixture's fractions instead of by 100
RECURSIVE Constituents_normalised(_, _, _)
Constituents_normalised(quantity, mixture_unit, mixture) ==
  IF mixture = <<>> THEN <<>>
  ELSE << Q(RMul(quantity.m,
                 RDiv(Head(mixture).pct,
                      IF Len(MIXTURES[mixture_unit]) = 2
                        THEN RAdd(MIXTURES[mixture_unit][1].pct, MIXTURES[mixture_unit][2].pct)
                        ELSE <<100, 1>>)),
            UCMul(UCDiv(quantity.uc, U(mixture_unit)), U(Head(mixture).species))) >>
       \o Constituents_normalised(quantity, mixture_unit, Tail(mixture))

\* the list of constituents with the fraction_pct left as a percentage
RECURSIVE Constituents_as_percent(_, _, _)
Constituents_as_percent(quantity, mixture_unit, mixture) ==
  IF mixture = <<>> THEN <<>>
  ELSE << Q(RMul(quantity.m, Head(mixture).pct),
            UCMul(UCDiv(quantity.uc, U(mixture_unit)), U(Head(mixture).species))) >>
       \o Constituents_as_percent(quantity, mixture_unit, Tail(mixture))

\* [quantity / mixture_unit * fraction_pct / 100 * c for c, fraction_pct in ...]
RECURSIVE Constituents(_, _, _)
Constituents(quantity, mixture_unit, mixture) ==
  IF mixture = <<>> THEN <<>>
  ELSE << Q(RMul(quantity.m, RDiv(Head(mixture).pct, <<100, 1>>)),
            UCMul(UCDiv(quantity.uc, U(mixture_unit)), U(Head(mixture).species))) >>
       \o Constituents(quantity, mixture_unit, Tail(mixture))

\* the message of the exponent check written without the value of the exponent
ExponentMessage_without_value(exp) ==
  "NotImplementedError: Mixture has dimensionality != 1, which is not supported."

\* f"Mixture has dimensionality {exp} != 1, which is not supported."
ExponentMessage(exp) ==
  "NotImplementedError: Mixture has dimensionality " \o ToString(exp)
    \o " != 1, which is not supported."

\* split_gas_mixture with the first check written as "not exactly one"
split_gas_mixture_not_one(tab, quantity) ==
  Let(get_dimensionality(tab, quantity.uc), LAMBDA dimensionality :
    Let({x \in DOMAIN dimensionality : MixtureOf(x) # ""}, LAMBDA mixture_dimensions :
      IF Cardinality(mixture_dimensions) # 1
        THEN SplitResult("ValueError: Dimensions don't contain a gas mixture.", 0, <<>>)
      ELSE Let(CHOOSE x \in mixture_dimensions : TRUE, LAMBDA mixture_dimension :
             IF dimensionality[mixture_dimension] # 1
               THEN SplitResult(ExponentMessage(dimensionality[mixture_dimension]),
                                dimensionality[mixture_dimension], <<>>)
               ELSE SplitResult("", 1,
                                Constituents(quantity, MixtureOf(mixture_dimension),
                                             MIXTURES[MixtureOf(mixture_dimension)])))))

\* split_gas_mixture with the exponent check moved before the count check
split_gas_mixture_exponent_first(tab, quantity) ==
  Let(get_dimensionality(tab, quantity.uc), LAMBDA dimensionality :
    Let({x \in DOMAIN dimensionality : MixtureOf(x) # ""}, LAMBDA mixture_dimensions :
      IF mixture_dimensions = {}
        THEN SplitResult("ValueError: Dimensions don't contain a gas mixture.", 0, <<>>)
      ELSE IF \E x \in mixture_dimensions : dimensionality[x] # 1
        THEN SplitResult(ExponentMessage(dimensionality[CHOOSE x \in mixture_dimensions :
                                                       dimensionality[x] # 1]),
                         dimensionality[CHOOSE x \in mixture_dimensions : dimensionality[x] # 1],
                         <<>>)
      ELSE IF Cardinality(mixture_dimensions) > 1
        THEN SplitResult("NotImplementedError: More than one gas mixture in dimensions is not supported.",
                         0, <<>>)
      ELSE Let(CHOOSE x \in mixture_dimensions : TRUE, LAMBDA mixture_dimension :
             SplitResult("", 1,
                         Constituents(quantity, MixtureOf(mixture_dimension),
                                      MIXTURES[MixtureOf(mixture_dimension)])))))

split_gas_mixture(tab, quantity) ==
  Let(get_dimensionality(tab, quantity.uc), LAMBDA dimensionality :
    Let({x \in DOMAIN dimensionality : MixtureOf(x) # ""}, LAMBDA mixture_dimensions :
      IF mixture_dimensions = {}
        THEN SplitResult("ValueError: Dimensions don't contain a gas mixture.", 0, <<>>)
      ELSE IF Cardinality(mixture_dimensions) > 1
        THEN SplitResult("NotImplementedError: More than one gas mixture in dimensions is not supported.",
                         0, <<>>)
      ELSE Let(CHOOSE x \in mixture_dimensions : TRUE, LAMBDA mixture_dimension :
             IF dimensionality[mixture_dimension] # 1
               THEN SplitResult(ExponentMessage(dimensionality[mixture_dimension]),
                                dimensionality[mixture_dimension], <<>>)
               ELSE SplitResult("", 1,
                                Constituents(quantity, MixtureOf(mixture_dimension),
                                             MIXTURES[MixtureOf(mixture_dimension)])))))

-----------------------------------------------------------------------------
(* Metric conversion tables: a column per metric, a row per species.       *)

Row(label, vals) == [label |-> label, vals |-> vals]

\* globalwarmingpotentials.as_frame(), the columns and rows the model keeps
BundledColumns == <<"SARGWP100", "AR4GWP100", "AR5GWP100">>

BundledRows ==
  << Row("CO2",     << <<1, 1>>,    <<1, 1>>,     <<1, 1>> >>),
     Row("CH4",     << <<21, 1>>,   <<25, 1>>,    <<28, 1>> >>),
     Row("N2O",     << <<310, 1>>,  <<298, 1>>,   <<265, 1>> >>),
     Row("HFC32",   << <<650, 1>>,  <<675, 1>>,   <<677, 1>> >>),
     Row("HFC125",  << <<2800, 1>>, <<3500, 1>>,  <<3170, 1>> >>),
     Row("HFC134a", << <<1300, 1>>, <<1430, 1>>,  <<1300, 1>> >>),
     Row("CFC12",   << NaN,         <<10900, 1>>, <<10200, 1>> >>),
     Row("CFC114",  << NaN,         <<10000, 1>>, <<8590, 1>> >>) >>

\* the DataFrame of test_custom_context
CustomColumns == <<"Custom1", "Custom2">>

CustomRows ==
  << Row("CH4", << <<20, 1>>,  <<25, 1>> >>),
     Row("N2O", << <<341, 1>>, <<300, 1>> >>) >>

\* a table given to the constructor that has a row for the mixture HFC407a
\* next to the rows of its constituents
TabulatedColumns == <<"Tabulated100">>

TabulatedRows ==
  << Row("CH4",     << <<25, 1>> >>),
     Row("N2O",     << <<298, 1>> >>),
     Row("HFC32",   << <<675, 1>> >>),
     Row("HFC125",  << <<3500, 1>> >>),
     Row("HFC134a", << <<1430, 1>> >>),
     Row("HFC407a", << <<2000, 1>> >>) >>

\* a table given to the constructor with a row whose label is no unit of the
\* registry
UnknownColumns == <<"Unknown100">>

UnknownRows ==
  << Row("CH4",       << <<25, 1>> >>),
     Row("Halon9999", << <<7, 1>> >>),
     Row("N2O",       << <<298, 1>> >>) >>

Frame(columns, rows) == [columns |-> columns, rows |-> rows]

\* _add_metric_conversions loading the bundled table whatever was given
MetricFrame_bundled(mc) == Frame(BundledColumns, BundledRows)

\* _add_metric_conversions: the bundled table unless one was given
MetricFrame(mc) ==
  CASE mc = "None"      -> Frame(BundledColumns, BundledRows)
    [] mc = "Custom"    -> Frame(CustomColumns, CustomRows)
    [] mc = "Tabulated" -> Frame(TabulatedColumns, TabulatedRows)
    [] mc = "Unknown"   -> Frame(UnknownColumns, UnknownRows)

\* metric_conversion[label]; <<FALSE, _>> stands for KeyError
Lookup(rows, i, label) ==
  IF \E k \in 1..Len(rows) : rows[k].label = label
    THEN <<TRUE, rows[CHOOSE k \in 1..Len(rows) : rows[k].label = label].vals[i]>>
    ELSE <<FALSE, NaN>>

-----------------------------------------------------------------------------
(* Construction of the contexts.                                           *)

\* base_unit.replace("[", "").replace("]", "")
Unbracket(tab, base_unit) ==
  IF \E n \in DOMAIN tab : "[" \o n \o "]" = base_unit
    THEN CHOOSE n \in DOMAIN tab : "[" \o n \o "]" = base_unit
    ELSE "?"

\* conv_val without the magnitudes of CO2 and of the label in base units
conv_val_of_val(tab, label, val) == val

conv_val_of(tab, label, val) ==
  RDiv(RMul(val, get_root_units(tab, U("CO2")).f), get_root_units(tab, U(label)).f)

\* _add_gwp_to_context registering the reciprocal of conv_val
GwpRegistrations_reciprocal(tab, label, val) ==
  Let(RInv(conv_val_of(tab, label, val)), LAMBDA conv_val :
    Let(CHOOSE x \in DOMAIN get_dimensionality(tab, U(label)) : TRUE, LAMBDA base_unit :
      Let(Unbracket(tab, base_unit), LAMBDA base_unit_ureg :
        Registrations(base_unit, base_unit_ureg, "[carbon]", "carbon", conv_val))))

\* the add_transformation calls of _add_gwp_to_context(context, label, val)
GwpRegistrations(tab, label, val) ==
  Let(conv_val_of(tab, label, val), LAMBDA conv_val :
    Let(CHOOSE x \in DOMAIN get_dimensionality(tab, U(label)) : TRUE, LAMBDA base_unit :
      Let(Unbracket(tab, base_unit), LAMBDA base_unit_ureg :
        Registrations(base_unit, base_unit_ureg, "[carbon]", "carbon", conv_val))))

add_gwp_to_context(tab, transform_context, label, val) ==
  AddAll(transform_context, GwpRegistrations(tab, label, val))

GwpCall(label, val) == [label |-> label, val |-> val]

\* the sum over the constituents of their factors, without the weights
RECURSIVE WeightedSum_unweighted(_, _, _)
WeightedSum_unweighted(constituents, rows, i) ==
  IF constituents = <<>> THEN <<TRUE, <<0, 1>>>>
  ELSE Let(Lookup(rows, i, CHOOSE n \in DOMAIN Head(constituents).uc : TRUE), LAMBDA cell :
         Let(WeightedSum_unweighted(Tail(constituents), rows, i), LAMBDA rest :
           IF ~cell[1] \/ ~rest[1] THEN <<FALSE, NaN>>
           ELSE <<TRUE, RAdd(cell[2], rest[2])>>))

\* sum(c.magnitude * metric_conversion[str(c.units)] for c in constituents);
\* <<FALSE, _>> stands for KeyError
RECURSIVE WeightedSum(_, _, _)
WeightedSum(constituents, rows, i) ==
  IF constituents = <<>> THEN <<TRUE, <<0, 1>>>>
  ELSE Let(Lookup(rows, i, CHOOSE n \in DOMAIN Head(constituents).uc : TRUE), LAMBDA cell :
         Let(WeightedSum(Tail(constituents), rows, i), LAMBDA rest :
           IF ~cell[1] \/ ~rest[1] THEN <<FALSE, NaN>>
           ELSE <<TRUE, RAdd(RMul(Head(constituents).m, cell[2]), rest[2])>>))

\* val of the loop over MIXTURES, for one mixture
MixtureVal(tab, mixture, rows, i) ==
  Let(split_gas_mixture(tab, Q(One, U(mixture))).ret, LAMBDA constituents :
    WeightedSum(constituents, rows, i))

\* the loop over MIXTURES skipping a mixture whose constituents' magnitudes
\* do not sum to 1
Synthesized_if_sum_is_one(tab, mixture, rows, i) ==
  Let(MixtureVal(tab, mixture, rows, i), LAMBDA val :
    /\ val[1]
    /\ ~isnan(val[2])
    /\ \/ Len(MIXTURES[mixture]) # 2
       \/ RAdd(MIXTURES[mixture][1].pct, MIXTURES[mixture][2].pct) = <<100, 1>>)

\* the loop over MIXTURES without the math.isnan(val) test
Synthesized_without_isnan(tab, mixture, rows, i) ==
  Let(MixtureVal(tab, mixture, rows, i), LAMBDA val : val[1])

\* whether the loop over MIXTURES reaches _add_gwp_to_context for the mixture
Synthesized(tab, mixture, rows, i) ==
  Let(MixtureVal(tab, mixture, rows, i), LAMBDA val : val[1] /\ ~isnan(val[2]))

\* The _add_gwp_to_context calls made for column i, in order: one per row of
\* the column, then one per mixture that is not skipped.
ColumnCalls(tab, frame, i) ==
  Let(SelectSeq(MixtureNames, LAMBDA m : Synthesized(tab, m, frame.rows, i)), LAMBDA kept :
    [k \in 1..Len(frame.rows) |-> GwpCall(frame.rows[k].label, frame.rows[k].vals[i])]
    \o [k \in 1..Len(kept) |-> GwpCall(kept[k], MixtureVal(tab, kept[k], frame.rows, i)[2])])

\* the context built for column i
ColumnContext(tab, frame, i) ==
  Let(ColumnCalls(tab, frame, i), LAMBDA calls :
    Let([k \in 1..Len(calls) |-> GwpRegistrations(tab, calls[k].label, calls[k].val)],
        LAMBDA regs :
      AddAll({}, [k \in 1..(2 * Len(formatters) * Len(calls)) |->
                    regs[((k - 1) \div (2 * Len(formatters))) + 1]
                        [((k - 1) % (2 * Len(formatters))) + 1]])))

\* self._contexts[name] = context
add_context(table, name, context) ==
  [n \in Enum(DOMAIN table \cup {name}) |-> IF n = name THEN context ELSE table[n]]

\* add_context for each column in order: the last context of a name stays
add_metric_conversions_from_df(tab, table, frame) ==
  LET cols    == frame.columns
      names   == {cols[i] : i \in 1..Len(cols)}
      final(n) == CHOOSE i \in 1..Len(cols) :
                    /\ cols[i] = n
                    /\ \A j \in (i + 1)..Len(cols) : cols[j] # n
  IN  [n \in Enum(DOMAIN table \cup names) |->
         IF n \in names THEN ColumnContext(tab, frame, final(n)) ELSE table[n]]

NoContexts == [n \in {} |-> {}]

\* the CH4 context with the factor the wrong way up
ch4_context_inverted ==
  add_transformations_to_context({}, "[methane]", "CH4", "[carbon]", "C", Norm(16, 12))

\* the NOx context registered against nitrous oxide instead of nitrogen
nox_context_on_n2o ==
  add_transformations_to_context({}, "[nitrous_oxide]", "nitrous_oxide", "[NOx]", "NOx",
                                 Norm(14 + 2 * 16, 14))

\* the NH3 context registered against carbon instead of nitrogen
nh3_context_on_carbon ==
  add_transformations_to_context({}, "[carbon]", "C", "[NH3]", "NH3",
                                 Norm(14 + 3, 14))

\* the four pairwise contexts of _add_contexts
ch4_context ==
  add_transformations_to_context({}, "[methane]", "CH4", "[carbon]", "C", Norm(12, 16))

n2o_context ==
  add_transformations_to_context({}, "[nitrous_oxide]", "nitrous_oxide",
                                 "[nitrogen]", "nitrogen", Norm(14, 44))

nox_context ==
  add_transformations_to_context({}, "[nitrogen]", "nitrogen", "[NOx]", "NOx",
                                 Norm(14 + 2 * 16, 14))

nh3_context ==
  add_transformations_to_context({}, "[nitrogen]", "nitrogen", "[NH3]", "NH3",
                                 Norm(14 + 3, 14))

\* the part of _add_contexts before _add_metric_conversions()
add_pairwise_contexts(table) ==
  add_context(
    add_context(
      add_context(
        add_context(table, "CH4_conversions", ch4_context),
        "N2O_conversions", n2o_context),
      "NOx_conversions", nox_context),
    "NH3_conversions", nh3_context)

\* _add_gwp_to_context raises for a row of the first column: self(label) of
\* a label that is not a unit
LabelUndefined(tab, frame) ==
  /\ Len(frame.columns) > 0
  /\ \E k \in 1..Len(frame.rows) : frame.rows[k].label \notin DOMAIN tab

add_contexts(tab, table, mc) ==
  add_metric_conversions_from_df(tab, add_pairwise_contexts(table), MetricFrame(mc))

-----------------------------------------------------------------------------
(* The engine's conversion under the active contexts.                      *)

\* the graph of the active contexts: an edge per registered key
Graph(table, ctx) ==
  {<<t.src, t.dst>> : t \in Enum(UNION {table[ctx[i]] : i \in 1..Len(ctx)})}

InPath(path, node) == \E i \in 1..Len(path) : path[i] = node

\* All shortest paths to end among the extensions of the simple paths in
\* paths, which all have the same length.
RECURSIVE Extend(_, _, _)
Extend(paths, graph, end) ==
  IF paths = {} THEN {}
  ELSE IF \E p \in paths : p[Len(p)] = end
    THEN {p \in paths : p[Len(p)] = end}
  ELSE Extend(Enum(UNION {{Append(p, g[2]) :
                             g \in {e \in graph : e[1] = p[Len(p)] /\ ~InPath(p, e[2])}} :
                           p \in paths}),
              graph, end)

\* find_shortest_path: one of the results its iteration order can give
find_shortest_path(graph, start, end) ==
  Let(graph, LAMBDA g : Let(start, LAMBDA s : Let(end, LAMBDA e :
    IF s = e THEN {<<s>>} ELSE Extend({<<s>>}, g, e))))

\* ContextChain.transform: the function of the first active context, in
\* priority order, that registers the key
transform(table, ctx, src, dst, value) ==
  Let(CHOOSE k \in 1..Len(ctx) :
        /\ \E t \in table[ctx[k]] : t.src = src /\ t.dst = dst
        /\ \A j \in 1..(k - 1) : ~\E t \in table[ctx[j]] : t.src = src /\ t.dst = dst,
      LAMBDA i :
    Let(CHOOSE x \in table[ctx[i]] : x.src = src /\ x.dst = dst, LAMBDA t :
      Let(value, LAMBDA v : Apply(t, v))))

RECURSIVE AlongPath(_, _, _, _)
AlongPath(table, ctx, path, value) ==
  IF Len(path) < 2 THEN value
  ELSE AlongPath(table, ctx, Tail(path),
                 transform(table, ctx, path[1], path[2], value))

Outcome(err, m) == [err |-> err, m |-> m]

\* the plain conversion: same dimensionality, ratio of the factors
plain_convert(tab, value, dst) ==
  Let(value, LAMBDA v :
    IF get_dimensionality(tab, v.uc) # get_dimensionality(tab, dst)
      THEN Outcome("DimensionalityError", NaN)
      ELSE Outcome("", RMul(v.m,
                            RDiv(get_root_units(tab, v.uc).f,
                                 get_root_units(tab, dst).f))))

\* Quantity.to(dst) where active contexts replace the plain conversions: with
\* a context active only a path of transformations converts
convert_through_contexts_only(tab, table, ctx, value, dst) ==
  IF ~Defined(tab, value.uc) \/ ~Defined(tab, dst)
    THEN {Outcome("UndefinedUnitError", NaN)}
  ELSE IF ctx = <<>>
    THEN {plain_convert(tab, value, dst)}
  ELSE Let(find_shortest_path(Graph(table, ctx),
                              get_dimensionality(tab, value.uc),
                              get_dimensionality(tab, dst)), LAMBDA paths :
         IF {p \in paths : Len(p) > 1} = {}
           THEN {Outcome("DimensionalityError", NaN)}
           ELSE {plain_convert(tab, AlongPath(table, ctx, p, value), dst) : p \in paths})

\* Quantity.to(dst) with the contexts ctx active: the set of outcomes
convert(tab, table, ctx, value, dst) ==
  IF ~Defined(tab, value.uc) \/ ~Defined(tab, dst)
    THEN {Outcome("UndefinedUnitError", NaN)}
  ELSE IF ctx = <<>>
    THEN {plain_convert(tab, value, dst)}
  ELSE Let(find_shortest_path(Graph(table, ctx),
                              get_dimensionality(tab, value.uc),
                              get_dimensionality(tab, dst)), LAMBDA paths :
         IF paths = {}
           THEN {plain_convert(tab, value, dst)}
           ELSE {plain_convert(tab, AlongPath(table, ctx, p, value), dst) : p \in paths})

-----------------------------------------------------------------------------
(* Parsing a unit string.  The registry is constructed with no preprocessor *)
(* (__init__ passes its arguments on unchanged), so the engine parses the   *)
(* string as written: an underscore is a character of a name, a hyphen is   *)
(* a minus sign between two names.                                          *)

\* a unit string of two pieces with sep ("", "_" or "-") between them
Spelling(left, sep, right) == [left |-> left, sep |-> sep, right |-> right]

Written(sp) == sp.left \o sp.sep \o sp.right

Parsed(err, m, uc) == [err |-> err, m |-> m, uc |-> uc]

\* registry(string): a name is looked up as it is written; left - right is
\* the difference of 1 left and 1 right, in the unit of left
parse_expression(tab, sp) ==
  IF sp.sep # "-"
    THEN IF Written(sp) \in DOMAIN tab
           THEN Parsed("", One, U(Written(sp)))
           ELSE Parsed("UndefinedUnitError", NaN, NoUnits)
  ELSE IF sp.left \notin DOMAIN tab \/ sp.right \notin DOMAIN tab
    THEN Parsed("UndefinedUnitError", NaN, NoUnits)
  ELSE IF get_dimensionality(tab, U(sp.left)) # get_dimensionality(tab, U(sp.right))
    THEN Parsed("DimensionalityError", NaN, NoUnits)
  ELSE Parsed("",
              RAdd(One, RMul(<<-1, 1>>, RDiv(get_root_units(tab, U(sp.right)).f,
                                             get_root_units(tab, U(sp.left)).f))),
              U(sp.left))

-----------------------------------------------------------------------------
(* The registry's operations.                                              *)

\* the names a caller passes to context(...): those of the tables' metrics
ContextNames ==
  {"CH4_conversions", "N2O_conversions", "NOx_conversions", "NH3_conversions",
   "SARGWP100", "AR4GWP100", "AR5GWP100", "Custom1", "Custom2", "Tabulated100"}

\* the contexts a caller activates inside another block
NestedNames == {"CH4_conversions", "AR4GWP100"}

Enabled(err, table, added, act, n, again) ==
  [err |-> err, contexts |-> table, contexts_added |-> added, active |-> act, builds |-> n,
   again |-> again]

Count(n) == IF n < MaxBuilds THEN n + 1 ELSE n

StandardAttributes == {"CH4", "C", "nitrous_oxide", "nitrogen", "NOx", "NH3"}

\* the add_context calls of a run of _add_contexts that named a context
\* already registered
Again(table, built) == Cardinality(DOMAIN built \cap DOMAIN table)

\* enable_contexts without the guard: _add_contexts runs on every call
enable_contexts_unguarded(tab, table, added, act, n, mc, name) ==
  IF ~(StandardAttributes \subseteq DOMAIN tab)
    THEN Enabled("AttributeError", table, added, act, n, 0)
  ELSE IF LabelUndefined(tab, MetricFrame(mc))
    THEN Enabled("UndefinedUnitError", add_pairwise_contexts(table), added, act, n,
                 Again(table, add_pairwise_contexts(NoContexts)))
  ELSE Let(add_contexts(tab, table, mc), LAMBDA built :
         IF name \notin DOMAIN built
           THEN Enabled("KeyError", built, TRUE, act, Count(n),
                        Again(table, add_contexts(tab, NoContexts, mc)))
           ELSE Enabled("", built, TRUE, <<name>> \o act, Count(n),
                        Again(table, add_contexts(tab, NoContexts, mc))))

\* enable_contexts handing the names to the engine twice
enable_contexts_twice(tab, table, added, act, n, mc, name) ==
  IF ~added /\ ~(StandardAttributes \subseteq DOMAIN tab)
    THEN Enabled("AttributeError", table, added, act, n, 0)
  ELSE IF ~added /\ LabelUndefined(tab, MetricFrame(mc))
    THEN Enabled("UndefinedUnitError", add_pairwise_contexts(table), added, act, n,
                 Again(table, add_pairwise_contexts(NoContexts)))
  ELSE Let(IF ~added THEN add_contexts(tab, table, mc) ELSE table, LAMBDA built :
         IF name \notin DOMAIN built
           THEN Enabled("KeyError", built, TRUE, act, IF ~added THEN Count(n) ELSE n,
                        IF ~added THEN Again(table, built) ELSE 0)
           ELSE Enabled("", built, TRUE, <<name, name>> \o act,
                        IF ~added THEN Count(n) ELSE n,
                        IF ~added THEN Again(table, built) ELSE 0))

\* enable_contexts setting _contexts_added before _add_contexts has run
enable_contexts_flag_first(tab, table, added, act, n, mc, name) ==
  IF ~added /\ ~(StandardAttributes \subseteq DOMAIN tab)
    THEN Enabled("AttributeError", table, added, act, n, 0)
  ELSE IF ~added /\ LabelUndefined(tab, MetricFrame(mc))
    THEN Enabled("UndefinedUnitError", add_pairwise_contexts(table), TRUE, act, n,
                 Again(table, add_pairwise_contexts(NoContexts)))
  ELSE Let(IF ~added THEN add_contexts(tab, table, mc) ELSE table, LAMBDA built :
         IF name \notin DOMAIN built
           THEN Enabled("KeyError", built, TRUE, act, IF ~added THEN Count(n) ELSE n,
                        IF ~added THEN Again(table, built) ELSE 0)
           ELSE Enabled("", built, TRUE, <<name>> \o act, IF ~added THEN Count(n) ELSE n,
                        IF ~added THEN Again(table, built) ELSE 0))

\* ScmUnitRegistry.enable_contexts(name) on the registry state
\* (tab, table, added, act), n runs of _add_contexts completed so far.  A run
\* of _add_contexts that raises leaves the contexts it had registered and
\* the flag as it was; the engine is not reached.
enable_contexts(tab, table, added, act, n, mc, name) ==
  IF ~added /\ ~(StandardAttributes \subseteq DOMAIN tab)
    THEN Enabled("AttributeError", table, added, act, n, 0)
  ELSE IF ~added /\ LabelUndefined(tab, MetricFrame(mc))
    THEN Enabled("UndefinedUnitError", add_pairwise_contexts(table), added, act, n,
                 Again(table, add_pairwise_contexts(NoContexts)))
  ELSE Let(IF ~added THEN add_contexts(tab, table, mc) ELSE table, LAMBDA built :
         IF name \notin DOMAIN built
           THEN Enabled("KeyError", built, TRUE, act, IF ~added THEN Count(n) ELSE n,
                        IF ~added THEN Again(table, built) ELSE 0)
           ELSE Enabled("", built, TRUE, <<name>> \o act, IF ~added THEN Count(n) ELSE n,
                        IF ~added THEN Again(table, built) ELSE 0))

\* disable_contexts(n)
disable_contexts(act, n) == SubSeq(act, n + 1, Len(act))

\* A call and its outcome: the contexts active while it ran (ctx), the number
\* of context blocks around it, its own included (depth), the error raised or
\* "", and what it returned.  For a context(...) call that raised, exp is the
\* number of contexts its run of _add_contexts registered under a name that
\* was registered before.
Call(op, src, dst, ctx, depth, err, m, exp, ret) ==
  [op |-> op, src |-> src, dst |-> dst, ctx |-> ctx, depth |-> depth, err |-> err,
   m |-> m, exp |-> exp, ret |-> ret]

Idle == Call("none", NoUnits, NoUnits, <<>>, 0, "", NaN, 0, <<>>)

\* a returned value, or a raised error, that the caller has not yet dealt with
Pending == last.op # "none"

\* the shapes of unit a caller writes: "{}", "kg {} / yr", "kg {}", "{} / yr"
FourShapes == {Fmt(0, 0), Fmt(1, -1), Fmt(1, 0), Fmt(0, -1)}

Shaped(fmt, species) ==
  UCMul(UCMul(UCPow(U("kg"), fmt.mass), U(species)), UCPow(U("yr"), fmt.time))

\* the symbols add_standards() passes to _add_gases
GasSymbols ==
  {STANDARD_GASES[i].symbol : i \in 1..Len(STANDARD_GASES)}
  \cup {MixtureNames[i] : i \in 1..Len(MixtureNames)}

BareSpecies ==
  {"C", "CO2", "CH4", "N2O", "N2ON", "N", "NO2", "NOx", "NH3", "CFC400", "HFC407a"}

ShapedSpecies == {"CO2", "CH4", "N2ON"}

\* the conversions callers ask for: any two bare species, any two species in
\* the same shape, and two that change the shape
Conversions ==
  {<<U(x), U(y)>> : x \in BareSpecies, y \in BareSpecies}
  \cup {<<U(Upper(x)), U(x)>> : x \in GasSymbols}
  \cup {<<U("t" \o x), U("g" \o x)>> : x \in GasSymbols \cup {Upper(y) : y \in GasSymbols}}
  \cup {<<U("tC"), U("tCO2")>>}
  \cup {<<Shaped(fmt, x), Shaped(fmt, y)>> :
          fmt \in FourShapes, x \in ShapedSpecies, y \in ShapedSpecies}
  \cup {<<Shaped(Fmt(1, -1), "CH4"), U("CO2")>>,
        <<Shaped(Fmt(1, 0), "CH4"), Shaped(Fmt(0, -1), "CO2")>>}

\* the conversions callers ask for with a context named in the call
ConversionsWith ==
  {<<U(x), U("CO2")>> : x \in {"CH4", "NH3", "CFC12", "CFC400", "HFC407a"}}

SplitInputs ==
  { U("CO2"), U("CFC400"), U("HFC407a"),
    UCMul(U("CFC400"), U("HFC407a")),
    UCPow(U("CFC400"), 2),
    UCPow(U("CFC400"), -1),
    UCMul(UCPow(U("CFC400"), 2), U("HFC407a")),
    UCMul(U("CO2"), U("CFC400")),
    UCMul(UCMul(U("kt"), U("HFC407a")), UCPow(U("yr"), -1)) }

\* the unit strings callers write
Spellings ==
  { Spelling("CO", "", "2"), Spelling("carbon", "_", "dioxide"),
    Spelling("C", "_", "O2"), Spelling("HFC", "_", "134a"),
    Spelling("HFC", "-", "134a"), Spelling("C", "-", "O2"),
    Spelling("t", "-", "C"), Spelling("kg", "-", "g") }

\* the magnitudes of the quantities split
SplitMagnitudes == {One, <<3, 2>>}

\* the tables a registry is built from: (MIXTURES, metric_conversions)
Configurations ==
  { <<ShippedMixtures, "None">>, <<ShippedMixtures, "Custom">>,
    <<ShippedMixtures, "Tabulated">>, <<ShippedMixtures, "Unknown">>,
    <<MalformedMixtures, "None">> }

Init ==
  /\ \E c \in Configurations : mixtures = c[1] /\ metric_conversions = c[2]
  /\ units = DefaultUnits
  /\ contexts = NoContexts
  /\ contexts_added = FALSE
  /\ active = <<>>
  /\ blocks = <<>>
  /\ builds = 0
  /\ last = Idle

\* registry.add_standards(): exp is the number of its define() calls that
\* named a unit already defined
add_standards ==
  /\ ~Pending
  /\ \E r \in {define_each(units, StandardDefs)} :
       /\ units' = r.units
       /\ last' = Call("add_standards", NoUnits, NoUnits, active, Len(blocks),
                       r.err, NaN, r.redefined, <<>>)
  /\ UNCHANGED <<mixtures, metric_conversions, contexts, contexts_added, active, blocks, builds>>

\* with registry.context(name): the block is entered unless enabling raises
EnterBlock(name) ==
  /\ ~Pending
  /\ Len(blocks) < MaxDepth
  /\ blocks = <<>> \/ name \in NestedNames
  /\ \E r \in {enable_contexts(units, contexts, contexts_added, active, builds,
                                metric_conversions, name)} :
         /\ contexts' = r.contexts
         /\ contexts_added' = r.contexts_added
         /\ active' = r.active
         /\ builds' = r.builds
         /\ blocks' = IF r.err = "" THEN <<1>> \o blocks ELSE blocks
         /\ last' = IF r.err = "" THEN Idle
                    ELSE Call("context", NoUnits, NoUnits, <<name>>, Len(blocks), r.err, NaN,
                              r.again, <<>>)
  /\ UNCHANGED <<mixtures, metric_conversions, units>>

\* the block's body ends: the finally clause disables the block's contexts
ExitBlock ==
  /\ ~Pending
  /\ blocks # <<>>
  /\ active' = disable_contexts(active, Head(blocks))
  /\ blocks' = Tail(blocks)
  /\ UNCHANGED <<mixtures, metric_conversions, units, contexts, contexts_added, builds, last>>

\* an error raised in the block's body leaves the block: the finally clause
\* disables the block's contexts and the error goes on to the enclosing block
RaiseOutOfBlock ==
  /\ Pending
  /\ last.err # ""
  /\ blocks # <<>>
  /\ active' = disable_contexts(active, Head(blocks))
  /\ blocks' = Tail(blocks)
  /\ UNCHANGED <<mixtures, metric_conversions, units, contexts, contexts_added, builds, last>>

\* the caller takes the returned quantity, or catches the error where it is
Drop ==
  /\ Pending
  /\ last' = Idle
  /\ UNCHANGED <<mixtures, metric_conversions, units, contexts, contexts_added, active, blocks, builds>>

\* (1 * registry(src)).to(dst)
ConvertTo(src, dst) ==
  /\ ~Pending
  /\ \E o \in convert(units, contexts, active, Q(One, src), dst) :
       last' = Call("to", src, dst, active, Len(blocks), o.err, o.m, 0, <<>>)
  /\ UNCHANGED <<mixtures, metric_conversions, units, contexts, contexts_added, active, blocks, builds>>

\* (1 * registry(src)).to(dst, name): both units are parsed, then the
\* conversion runs inside a block of its own
ConvertToWith(src, dst, name) ==
  /\ ~Pending
  /\ IF ~Defined(units, src) \/ ~Defined(units, dst)
       THEN /\ last' = Call("to", src, dst, active, Len(blocks),
                            "UndefinedUnitError", NaN, 0, <<>>)
            /\ UNCHANGED <<contexts, contexts_added, builds, active>>
       ELSE \E r \in {enable_contexts(units, contexts, contexts_added, active, builds,
                                      metric_conversions, name)} :
              /\ contexts' = r.contexts
              /\ contexts_added' = r.contexts_added
              /\ builds' = r.builds
              /\ active' = IF r.err = "" THEN disable_contexts(r.active, 1) ELSE r.active
              /\ IF r.err # ""
                   THEN last' = Call("context", src, dst, <<name>>, Len(blocks),
                                     r.err, NaN, r.again, <<>>)
                   ELSE \E o \in convert(units, r.contexts, r.active, Q(One, src), dst) :
                          last' = Call("to", src, dst, r.active, Len(blocks) + 1,
                                       o.err, o.m, 0, <<>>)
  /\ UNCHANGED <<mixtures, metric_conversions, units, blocks>>

\* registry.split_gas_mixture(1 * quantity)
Split(m, uc) ==
  /\ ~Pending
  /\ \E r \in {IF Defined(units, uc)
                  THEN split_gas_mixture(units, Q(m, uc))
                  ELSE SplitResult("UndefinedUnitError", 0, <<>>)} :
       last' = Call("split", uc, NoUnits, active, Len(blocks), r.err, m, r.exp, r.ret)
  /\ UNCHANGED <<mixtures, metric_conversions, units, contexts, contexts_added, active, blocks, builds>>

\* registry(string)
Parse(sp) ==
  /\ ~Pending
  /\ \E r \in {parse_expression(units, sp)} :
       last' = Call("parse", U(Written(sp)), r.uc, active, Len(blocks), r.err, r.m, 0, <<>>)
  /\ UNCHANGED <<mixtures, metric_conversions, units, contexts, contexts_added, active, blocks, builds>>

Next ==
  \/ add_standards
  \/ \E name \in ContextNames : EnterBlock(name)
  \/ ExitBlock
  \/ RaiseOutOfBlock
  \/ Drop
  \/ \E c \in Conversions : ConvertTo(c[1], c[2])
  \/ \E c \in ConversionsWith, name \in ContextNames : ConvertToWith(c[1], c[2], name)
  \/ \E m \in SplitMagnitudes, uc \in SplitInputs : Split(m, uc)
  \/ \E sp \in Spellings : Parse(sp)

Spec == Init /\ [][Next]_vars

-----------------------------------------------------------------------------
(* Several registries in one process: the module-level unit_registry, which *)
(* openscm_units/__init__.py constructs with no table and on which it calls *)
(* add_standards(), and a registry a caller constructs with a table of its  *)
(* own.  In this specification every variable but mixtures holds one value  *)
(* per registry; last names the registry of the last call.                  *)

Registries == {"unit_registry", "custom"}

\* the tables the registries were constructed with
RegistryTables ==
  [r \in Registries |-> IF r = "unit_registry" THEN "None" ELSE "Custom"]

\* the contexts callers ask the registries for
RegistryContextNames == {"CH4_conversions", "AR4GWP100", "Custom1"}

RegistryConversions == {<<U("CH4"), U("CO2")>>, <<U("N2O"), U("CO2")>>}

On(r, call) == [reg |-> r, call |-> call]

\* self._contexts_added = True assigned on the class: every instance that
\* has no attribute of its own reads it
assign_contexts_added_on_class(flags, r) == [x \in DOMAIN flags |-> TRUE]

\* self._contexts_added = True: an attribute of the instance; the class
\* attribute _contexts_added = False is what the other instances still read
assign_contexts_added(flags, r) == [flags EXCEPT ![r] = TRUE]

RegistryPending == last.call.op # "none"

RegistryInit ==
  /\ mixtures = ShippedMixtures
  /\ metric_conversions = RegistryTables
  /\ units = [r \in Registries |-> IF r = "unit_registry" THEN StandardUnits ELSE DefaultUnits]
  /\ contexts = [r \in Registries |-> NoContexts]
  /\ contexts_added = [r \in Registries |-> FALSE]
  /\ active = [r \in Registries |-> <<>>]
  /\ blocks = [r \in Registries |-> <<>>]
  /\ builds = [r \in Registries |-> 0]
  /\ last = On("unit_registry", Idle)

\* r.add_standards()
RegistryAddStandards(r) ==
  /\ ~RegistryPending
  /\ \E d \in {define_each(units[r], StandardDefs)} :
       /\ units' = [units EXCEPT ![r] = d.units]
       /\ last' = On(r, Call("add_standards", NoUnits, NoUnits, active[r], Len(blocks[r]),
                             d.err, NaN, d.redefined, <<>>))
  /\ UNCHANGED <<mixtures, metric_conversions, contexts, contexts_added, active, blocks, builds>>

\* with r.context(name)
RegistryEnterBlock(r, name) ==
  /\ ~RegistryPending
  /\ Len(blocks[r]) < MaxDepth
  /\ blocks[r] = <<>> \/ name \in NestedNames
  /\ \E e \in {enable_contexts(units[r], contexts[r], contexts_added[r], active[r],
                                builds[r], metric_conversions[r], name)} :
       /\ contexts' = [contexts EXCEPT ![r] = e.contexts]
       /\ contexts_added' = IF e.contexts_added
                              THEN assign_contexts_added(contexts_added, r)
                              ELSE contexts_added
       /\ active' = [active EXCEPT ![r] = e.active]
       /\ builds' = [builds EXCEPT ![r] = e.builds]
       /\ blocks' = IF e.err = "" THEN [blocks EXCEPT ![r] = <<1>> \o @] ELSE blocks
       /\ last' = IF e.err = "" THEN On(r, Idle)
                  ELSE On(r, Call("context", NoUnits, NoUnits, <<name>>, Len(blocks[r]),
                                  e.err, NaN, e.again, <<>>))
  /\ UNCHANGED <<mixtures, metric_conversions, units>>

\* the block's body ends
RegistryExitBlock(r) ==
  /\ ~RegistryPending
  /\ blocks[r] # <<>>
  /\ active' = [active EXCEPT ![r] = disable_contexts(@, Head(blocks[r]))]
  /\ blocks' = [blocks EXCEPT ![r] = Tail(@)]
  /\ last' = On(r, Idle)
  /\ UNCHANGED <<mixtures, metric_conversions, units, contexts, contexts_added, builds>>

\* (1 * r(src)).to(dst)
RegistryConvertTo(r, src, dst) ==
  /\ ~RegistryPending
  /\ \E o \in convert(units[r], contexts[r], active[r], Q(One, src), dst) :
       last' = On(r, Call("to", src, dst, active[r], Len(blocks[r]), o.err, o.m, 0, <<>>))
  /\ UNCHANGED <<mixtures, metric_conversions, units, contexts, contexts_added, active, blocks, builds>>

\* the caller takes the returned quantity, or catches the error where it is
RegistryDrop ==
  /\ RegistryPending
  /\ last' = On(last.reg, Idle)
  /\ UNCHANGED <<mixtures, metric_conversions, units, contexts, contexts_added, active, blocks, builds>>

RegistryNext ==
  \/ \E r \in Registries : RegistryAddStandards(r)
  \/ \E r \in Registries, name \in RegistryContextNames : RegistryEnterBlock(r, name)
  \/ \E r \in Registries : RegistryExitBlock(r)
  \/ \E r \in Registries, c \in RegistryConversions : RegistryConvertTo(r, c[1], c[2])
  \/ RegistryDrop

SpecRegistries == RegistryInit /\ [][RegistryNext]_vars

-----------------------------------------------------------------------------
(* Properties.                                                             *)

\* add_standards() has been called
StandardsAdded == units = StandardUnits

\* every row label of the registry's table is a unit after add_standards()
LabelsKnown == ~LabelUndefined(StandardUnits, MetricFrame(metric_conversions))

\* the last call was (1 * registry(src)).to(dst)
Asked(src, dst) == last.op = "to" /\ last.src = U(src) /\ last.dst = U(dst)

Raised(err) == last.err = err

Returned(m) == last.err = "" /\ last.m = m

Pairwise == {"CH4_conversions", "N2O_conversions", "NOx_conversions", "NH3_conversions"}

Range(seq) == {seq[i] : i \in 1..Len(seq)}

\* the dimensionalities that the transformations of the contexts ctx join
Nodes(ctx) == {e[1] : e \in Graph(contexts, ctx)} \cup {e[2] : e \in Graph(contexts, ctx)}

C1Pairs ==
  {<<"CH4", "C">>, <<"N2O", "N">>, <<"N", "N2ON">>, <<"NOx", "N">>, <<"NH3", "N">>,
   <<"CO2", "N2O">>}

\* C1: on a registry with the standard units, a conversion CH4->C, N2O->N,
\* N->N2ON, NOx->N, NH3->N or CO2->N2O asked for outside every context block
\* raises DimensionalityError, whatever was activated and exited before.
C1_NoContextNoConversion ==
  (last.op = "to" /\ last.depth = 0 /\ StandardsAdded)
    => \A p \in C1Pairs : Asked(p[1], p[2]) => Raised("DimensionalityError")

\* CH4->C is refused outside every block after the contexts have been built
\* and used
C1_Witness ==
  /\ contexts_added
  /\ blocks = <<>>
  /\ Asked("CH4", "C")
  /\ last.depth = 0
  /\ Raised("DimensionalityError")

C2Pairs ==
  { <<"CH4_conversions", "CH4", "C", Norm(12, 16)>>,
    <<"N2O_conversions", "N2O", "N", Norm(14, 44)>>,
    <<"NOx_conversions", "N", "NOx", Norm(46, 14)>>,
    <<"NH3_conversions", "N", "NH3", Norm(17, 14)>> }

\* C2: while a pairwise context (and no metric context) is active, 1 A converts
\* to f B and 1 B to 1/f A for its pair (A, B) with factor f, and converting
\* the result of A->B back gives the original 1 A: CH4->C 12/16, N2O->N 14/44,
\* N->NOx 46/14, N->NH3 17/14.
C2_FactorAndReciprocal ==
  \A p \in C2Pairs :
    (last.op = "to" /\ p[1] \in Range(last.ctx) /\ Range(last.ctx) \subseteq Pairwise)
      => /\ Asked(p[2], p[3])
              => /\ Returned(p[4])
                 /\ convert(units, contexts, last.ctx, Q(last.m, last.dst), last.src)
                      = {Outcome("", One)}
         /\ Asked(p[3], p[2])
              => /\ Returned(RInv(p[4]))
                 /\ convert(units, contexts, last.ctx, Q(last.m, last.dst), last.src)
                      = {Outcome("", One)}

\* 1 N is 46/14 NOx inside NOx_conversions
C2_Witness ==
  /\ Asked("N", "NOx")
  /\ last.ctx = <<"NOx_conversions">>
  /\ Returned(<<23, 7>>)

\* the two dimension tags each pairwise context is built on
PairwiseTags ==
  [name \in Pairwise |->
     CASE name = "CH4_conversions" -> <<"[methane]", "[carbon]">>
       [] name = "N2O_conversions" -> <<"[nitrous_oxide]", "[nitrogen]">>
       [] name = "NOx_conversions" -> <<"[nitrogen]", "[NOx]">>
       [] name = "NH3_conversions" -> <<"[nitrogen]", "[NH3]">>]

\* dim in the shape fmt
InShape(fmt, dim) ==
  UCMul(UCMul(UCPow(U("[mass]"), fmt.mass), U(dim)), UCPow(U("[time]"), fmt.time))

\* the keys, with the direction registered under each, that one call on the
\* tags (x, y) is to leave in a context
EightKeys(x, y) ==
  UNION {{ <<InShape(fmt, x), InShape(fmt, y), TRUE>>,
           <<InShape(fmt, y), InShape(fmt, x), FALSE>> } : fmt \in FourShapes}

PairwiseKeys == [name \in Pairwise |-> EightKeys(PairwiseTags[name][1], PairwiseTags[name][2])]

\* a species and CO2 in one shape, with the species
ShapedToCO2 ==
  {<<Shaped(fmt, x), Shaped(fmt, "CO2"), x>> : fmt \in FourShapes, x \in {"CH4", "N2ON"}}

\* C3: a context that one call of _add_transformations_to_context filled holds
\* exactly eight transformations, a forward and a backward one in each of the
\* shapes '{}', 'kg {} / yr', 'kg {}', '{} / yr'; and under one active metric
\* context a species converts to CO2, and CO2 back, with the same factor in
\* each of the four shapes as in the bare one.
C3_EightPerCall ==
  /\ contexts_added
       => \A name \in Pairwise :
            /\ Cardinality(contexts[name]) = 8
            /\ {<<t.src, t.dst, t.forward>> : t \in contexts[name]} = PairwiseKeys[name]
  /\ (last.op = "to" /\ Len(last.ctx) = 1 /\ last.ctx[1] \notin Pairwise)
       => \A q \in ShapedToCO2 :
            /\ (last.src = q[1] /\ last.dst = q[2])
                 => /\ Raised("")
                    /\ Outcome("", last.m)
                         \in convert(units, contexts, last.ctx, Q(One, U(q[3])), U("CO2"))
                    /\ (last.ctx[1] = "AR4GWP100" /\ q[3] = "CH4") => last.m = <<25, 1>>
            /\ (last.src = q[2] /\ last.dst = q[1])
                 => /\ Raised("")
                    /\ Outcome("", RInv(last.m))
                         \in convert(units, contexts, last.ctx, Q(One, U(q[3])), U("CO2"))

\* 1 kg CH4 / yr is 25 kg CO2 / yr under AR4GWP100
C3_Witness ==
  /\ contexts_added
  /\ Cardinality(contexts["CH4_conversions"]) = 8
  /\ last.op = "to"
  /\ last.ctx = <<"AR4GWP100">>
  /\ last.src = Shaped(Fmt(1, -1), "CH4")
  /\ last.dst = Shaped(Fmt(1, -1), "CO2")
  /\ Returned(<<25, 1>>)

\* every context of _add_contexts is in the registry's table
AllBuilt ==
  Pairwise \cup Range(MetricFrame(metric_conversions).columns) \subseteq DOMAIN contexts

\* some enable_contexts call got as far as the engine's enable_contexts
SomeCallPassed ==
  \/ active # <<>>
  \/ last.op = "to" /\ last.ctx # <<>>
  \/ last.op = "context" /\ Raised("KeyError")

\* C4: over the enable_contexts calls on a registry, _add_contexts completes
\* once, in the first call that reaches the engine, and no later call runs
\* it: whenever a context is or was activated every pairwise and metric
\* context has been built, by exactly one construction.
C4_BuiltOnFirstCallOnly ==
  /\ builds <= 1
  /\ contexts_added <=> builds = 1
  /\ contexts_added => AllBuilt
  /\ ~contexts_added
       => /\ active = <<>>
          /\ Range(MetricFrame(metric_conversions).columns) \cap DOMAIN contexts = {}
  /\ SomeCallPassed => contexts_added

\* two contexts are active, the second activated after the first, and
\* _add_contexts has run once
C4_Witness ==
  /\ Len(active) = 2
  /\ contexts_added
  /\ builds = 1

\* C5: the contexts active are exactly those of the blocks not yet left, a
\* conversion runs under the contexts of the blocks around it, and once every
\* block is left, normally or by an error raised inside it, nothing is active
\* and a context-only conversion (N->NH3) is refused again.
C5_ScopedActivation ==
  /\ Len(active) = Len(blocks)
  /\ last.op = "to" => Len(last.ctx) = last.depth
  /\ (Asked("N", "NH3") /\ last.depth = 0 /\ StandardsAdded)
       => Raised("DimensionalityError")

\* a DimensionalityError raised inside a block of NH3_conversions has left
\* the block, and no context is active
C5_Witness ==
  /\ Asked("NOx", "N2O")
  /\ last.ctx = <<"NH3_conversions">>
  /\ last.depth = 1
  /\ Raised("DimensionalityError")
  /\ blocks = <<>>
  /\ active = <<>>

\* the species asked for one by one, without a prefix or a rate
Bare == {U(x) : x \in BareSpecies}

\* C6: a conversion that succeeds between units of different dimensionality
\* joins two dimensionalities that the active contexts register; NH3->CO2
\* raises DimensionalityError under NH3_conversions and under AR5GWP100, and
\* NOx->N2O raises it under NOx_conversions.
C6_OnlyRegisteredPairs ==
  last.op = "to"
    => /\ (Asked("NH3", "CO2") /\ last.ctx \in {<<"NH3_conversions">>, <<"AR5GWP100">>})
            => Raised("DimensionalityError")
       /\ (Asked("NOx", "N2O") /\ last.ctx = <<"NOx_conversions">>)
            => Raised("DimensionalityError")
       /\ (Raised("") /\ last.src \in Bare
             /\ get_dimensionality(units, last.src) # get_dimensionality(units, last.dst))
            => {get_dimensionality(units, last.src), get_dimensionality(units, last.dst)}
                 \subseteq Nodes(last.ctx)

\* NH3->CO2 is refused under the metric context AR5GWP100
C6_Witness ==
  /\ Asked("NH3", "CO2")
  /\ last.ctx = <<"AR5GWP100">>
  /\ Raised("DimensionalityError")

\* C7 as stated: under NOx_conversions, NOx converts to N2O.
C7_NOxToN2OPermitted ==
  (Asked("NOx", "N2O") /\ last.ctx = <<"NOx_conversions">>) => Raised("")

\* C7, amended: under NOx_conversions, NOx->N2O raises DimensionalityError;
\* what the context permits besides NOx<->N is NOx<->NO2, with magnitude 1.
C7_NOxToNO2NotN2O ==
  (last.op = "to" /\ last.ctx = <<"NOx_conversions">>)
    => /\ Asked("NOx", "N2O") => Raised("DimensionalityError")
       /\ Asked("NOx", "NO2") => Returned(One)
       /\ Asked("NO2", "NOx") => Returned(One)

\* NOx->N2O was asked for under NOx_conversions, and refused
C7_Witness ==
  /\ Asked("NOx", "N2O")
  /\ last.ctx = <<"NOx_conversions">>
  /\ last.depth = 1
  /\ Raised("DimensionalityError")
  /\ active = <<"NOx_conversions">>

\* C8: under one pairwise context, any two species whose dimensions the
\* context joins convert; under CH4_conversions 1 CH4 is 12/16 C and
\* 44/16 CO2, the context factor times the plain C->CO2 factor.
C8_TransitiveThroughC ==
  (last.op = "to" /\ Len(last.ctx) = 1 /\ last.ctx[1] \in Pairwise)
    => /\ (last.src \in Bare /\ last.dst \in Bare
             /\ {get_dimensionality(units, last.src), get_dimensionality(units, last.dst)}
                  \subseteq Nodes(last.ctx))
            => Raised("")
       /\ last.ctx[1] = "CH4_conversions"
            => /\ Asked("CH4", "C") => Returned(Norm(12, 16))
               /\ Asked("CH4", "CO2")
                    => /\ Returned(Norm(44, 16))
                       /\ last.m = RMul(Norm(12, 16),
                                        plain_convert(units, Q(One, U("C")), U("CO2")).m)

\* 1 CH4 is 44/16 CO2 under CH4_conversions
C8_Witness ==
  /\ Asked("CH4", "CO2")
  /\ last.ctx = <<"CH4_conversions">>
  /\ Returned(<<11, 4>>)

NoMixture == "ValueError: Dimensions don't contain a gas mixture."

MoreThanOne == "NotImplementedError: More than one gas mixture in dimensions is not supported."

ExponentNotOne(e) ==
  "NotImplementedError: Mixture has dimensionality " \o ToString(e)
    \o " != 1, which is not supported."

\* the tags of the quantity last split that name a mixture
MixtureTags ==
  {x \in DOMAIN get_dimensionality(units, last.src) :
     \E m \in DOMAIN MIXTURES : x = "[" \o m \o "]"}

\* the last call was split_gas_mixture on a quantity the registry can express
SplitCalled == last.op = "split" /\ ~Raised("UndefinedUnitError")

\* C9: split_gas_mixture raises ValueError "Dimensions don't contain a gas
\* mixture." exactly when no dimension tag of the quantity names a mixture, as
\* for 1 CO2, and then returns nothing.
C9_NoMixtureIffNoTag ==
  SplitCalled
    => /\ Raised(NoMixture) <=> MixtureTags = {}
       /\ Raised(NoMixture) => last.ret = <<>>
       /\ last.src = U("CO2") => Raised(NoMixture)

\* 1 CO2 was split and refused
C9_Witness ==
  /\ last.op = "split"
  /\ last.src = U("CO2")
  /\ Raised(NoMixture)
  /\ last.ret = <<>>

\* C10: split_gas_mixture checks: no mixture tag, then more than one, then the
\* exponent; two or more mixture tags raise the "more than one gas mixture"
\* NotImplementedError whatever their exponents, and one tag with an exponent
\* other than 1 raises the exponent error.
C10_CheckOrder ==
  SplitCalled
    => /\ Cardinality(MixtureTags) = 0 => Raised(NoMixture)
       /\ Cardinality(MixtureTags) > 1 => Raised(MoreThanOne)
       /\ (Cardinality(MixtureTags) = 1
             /\ \E x \in MixtureTags : get_dimensionality(units, last.src)[x] # 1)
            => \E x \in MixtureTags :
                 Raised(ExponentNotOne(get_dimensionality(units, last.src)[x]))
       /\ (Cardinality(MixtureTags) = 1
             /\ \A x \in MixtureTags : get_dimensionality(units, last.src)[x] = 1)
            => Raised("") /\ last.ret # <<>>

\* CFC400 squared times HFC407a was split: two mixtures, reported as such
C10_Witness ==
  /\ last.op = "split"
  /\ last.src = UCMul(UCPow(U("CFC400"), 2), U("HFC407a"))
  /\ Raised(MoreThanOne)

\* the exponent of the only mixture tag of the quantity last split
TagExponent ==
  get_dimensionality(units, last.src)[CHOOSE x \in MixtureTags : TRUE]

\* C11: split_gas_mixture on a quantity with exactly one mixture tag whose
\* exponent is not 1 raises the NotImplementedError whose message carries the
\* exponent ("Mixture has dimensionality 2 != 1, which is not supported.");
\* with exponent 1 none of the three errors of the checks is raised.
C11_ExponentInMessage ==
  (SplitCalled /\ Cardinality(MixtureTags) = 1)
    => /\ TagExponent # 1
            => /\ Raised(ExponentNotOne(TagExponent))
               /\ last.exp = TagExponent
               /\ last.ret = <<>>
       /\ TagExponent = 1
            => last.err \notin {NoMixture, MoreThanOne} \cup {ExponentNotOne(e) : e \in -3..3}
       /\ last.src = UCPow(U("CFC400"), 2)
            => Raised("NotImplementedError: Mixture has dimensionality 2 != 1, which is not supported.")
       /\ last.src = UCPow(U("CFC400"), -1)
            => Raised("NotImplementedError: Mixture has dimensionality -1 != 1, which is not supported.")

\* 1 / CFC400 was split and refused with the exponent -1 in the message
C11_Witness ==
  /\ last.op = "split"
  /\ last.src = UCPow(U("CFC400"), -1)
  /\ Raised("NotImplementedError: Mixture has dimensionality -1 != 1, which is not supported.")

\* the mixture named by the only mixture tag of the quantity last split
TagMixture == CHOOSE m \in DOMAIN MIXTURES : ("[" \o m \o "]") \in MixtureTags

\* the quantity last split had exactly one mixture tag, of exponent 1
SplitValid == SplitCalled /\ Cardinality(MixtureTags) = 1 /\ TagExponent = 1

\* C12: for a quantity with one mixture tag of exponent 1, split_gas_mixture
\* returns one quantity per constituent of the mixture, in the order of the
\* table; the i-th has the magnitude of the input times fraction_i / 100 and
\* the unit of the input with the mixture replaced by the i-th constituent,
\* every other part of the unit (kt, 1/yr) kept.
C12_OnePerConstituent ==
  SplitValid
    => /\ Raised("")
       /\ Len(last.ret) = Len(MIXTURES[TagMixture])
       /\ \A i \in 1..Len(last.ret) :
            /\ last.ret[i].m = Norm(last.m[1] * MIXTURES[TagMixture][i].pct[1],
                                    last.m[2] * MIXTURES[TagMixture][i].pct[2] * 100)
            /\ \A n \in DOMAIN last.src \cup DOMAIN last.ret[i].uc :
                 Exp(last.ret[i].uc, n)
                   = IF n = MIXTURES[TagMixture][i].species THEN 1
                     ELSE IF n = TagMixture THEN 0
                     ELSE Exp(last.src, n)

\* 3/2 kt HFC407a / yr was split into 3/10 kt HFC32 / yr, 3/5 kt HFC125 / yr
\* and 3/5 kt HFC134a / yr
C12_Witness ==
  /\ last.op = "split"
  /\ last.src = UCMul(UCMul(U("kt"), U("HFC407a")), UCPow(U("yr"), -1))
  /\ last.m = <<3, 2>>
  /\ last.ret = << Q(<<3, 10>>, UCMul(UCMul(U("kt"), U("HFC32")), UCPow(U("yr"), -1))),
                   Q(<<3, 5>>, UCMul(UCMul(U("kt"), U("HFC125")), UCPow(U("yr"), -1))),
                   Q(<<3, 5>>, UCMul(UCMul(U("kt"), U("HFC134a")), UCPow(U("yr"), -1))) >>

\* sum(c.magnitude for c in constituents)
RECURSIVE SumOfMagnitudes(_)
SumOfMagnitudes(constituents) ==
  IF constituents = <<>> THEN <<0, 1>>
  ELSE RAdd(Head(constituents).m, SumOfMagnitudes(Tail(constituents)))

\* the sum of the fractions, in percent, that the table gives a mixture
RECURSIVE SumOfFractions(_)
SumOfFractions(mixture) ==
  IF mixture = <<>> THEN <<0, 1>>
  ELSE RAdd(Head(mixture).pct, SumOfFractions(Tail(mixture)))

\* C13: the magnitudes of split_gas_mixture(1 * M) sum to 1 for every mixture
\* M whose fractions sum to 100; for a mixture whose fractions do not, no
\* error is raised and the magnitudes sum to (sum of the fractions) / 100.
C13_MagnitudesSum ==
  (SplitValid /\ last.src = U(TagMixture) /\ last.m = One)
    => /\ Raised("")
       /\ SumOfMagnitudes(last.ret) = RDiv(SumOfFractions(MIXTURES[TagMixture]), <<100, 1>>)
       /\ SumOfFractions(MIXTURES[TagMixture]) = <<100, 1>>
            => SumOfMagnitudes(last.ret) = One

\* 1 CFC400 was split under a table that gives CFC400 fractions of 50 and 40:
\* no error, and the magnitudes sum to 9/10
C13_Witness ==
  /\ last.op = "split"
  /\ last.src = U("CFC400")
  /\ last.m = One
  /\ SumOfFractions(MIXTURES["CFC400"]) = <<90, 1>>
  /\ Raised("")
  /\ SumOfMagnitudes(last.ret) = <<9, 10>>

\* 1 HFC407a was split under the shipped table: the magnitudes sum to 1
C13_ShippedWitness ==
  /\ last.op = "split"
  /\ last.src = U("HFC407a")
  /\ last.m = One
  /\ mixtures = ShippedMixtures
  /\ SumOfMagnitudes(last.ret) = One

\* the names of the contexts built from the columns of the registry's table
MetricNames == Range(MetricFrame(metric_conversions).columns)

\* the column of a table that the context of a name is built from
ColumnIn(mc, name) ==
  CHOOSE i \in 1..Len(MetricFrame(mc).columns) :
    /\ MetricFrame(mc).columns[i] = name
    /\ \A j \in (i + 1)..Len(MetricFrame(mc).columns) : MetricFrame(mc).columns[j] # name

\* the cell of a table for a species under a metric
CellIn(mc, species, metric) ==
  Lookup(MetricFrame(mc).rows, ColumnIn(mc, metric), species)

\* the sum over the constituents of fraction / 100 times the constituent's factor
RECURSIVE WeightedFactorIn(_, _, _)
WeightedFactorIn(mc, parts, metric) ==
  IF parts = <<>> THEN <<0, 1>>
  ELSE RAdd(RMul(RDiv(Head(parts).pct, <<100, 1>>), CellIn(mc, Head(parts).species, metric)[2]),
            WeightedFactorIn(mc, Tail(parts), metric))

\* for the tables a registry is built from, per metric and mixture: whether
\* the table has, for every constituent, a row whose cell under the metric is
\* a number, and then the weighted sum of those cells
FactorsIn(mix, mc) ==
  [metric \in Range(MetricFrame(mc).columns) |->
     [mixture \in DOMAIN mix |->
        Let(\A k \in 1..Len(mix[mixture]) :
              /\ CellIn(mc, mix[mixture][k].species, metric)[1]
              /\ ~isnan(CellIn(mc, mix[mixture][k].species, metric)[2]),
            LAMBDA all :
          [all |-> all,
           factor |-> IF all THEN WeightedFactorIn(mc, mix[mixture], metric) ELSE NaN])]]

Factors == [c \in Configurations |-> FactorsIn(c[1], c[2])]

\* the cell of the registry's table for a species under a metric
Cell(species, metric) == CellIn(metric_conversions, species, metric)

\* the table has a row for the species and its cell under the metric is a number
HasFactor(species, metric) ==
  Cell(species, metric)[1] /\ ~isnan(Cell(species, metric)[2])

\* every constituent of the mixture has a factor under the metric
AllHaveFactors(mixture, metric) ==
  Factors[<<mixtures, metric_conversions>>][metric][mixture].all

\* the sum over the constituents of fraction / 100 times the constituent's factor
WeightedFactor(mixture, metric) ==
  Factors[<<mixtures, metric_conversions>>][metric][mixture].factor

\* the last call was (1 * registry(mixture)).to("CO2") with the metric's
\* context the only active one
MixtureToCO2(mixture, metric) ==
  /\ Asked(mixture, "CO2")
  /\ last.ctx = <<metric>>
  /\ metric \in MetricNames

\* C14: for every metric and every mixture all of whose constituents have a
\* factor under it, 1 mixture converts to CO2 under the metric's context with
\* the magnitude sum(fraction / 100 * factor of the constituent); 1 HFC407a is
\* 2107 CO2 under AR4GWP100.
C14_WeightedSumOfFactors ==
  \A mixture \in DOMAIN MIXTURES :
    (last.op = "to" /\ last.ctx # <<>> /\ MixtureToCO2(mixture, last.ctx[1])
       /\ AllHaveFactors(mixture, last.ctx[1]))
      => /\ Returned(WeightedFactor(mixture, last.ctx[1]))
         /\ (mixture = "HFC407a" /\ last.ctx[1] = "AR4GWP100") => Returned(<<2107, 1>>)

\* 1 HFC407a was converted to CO2 under AR4GWP100 and gave 2107
C14_Witness ==
  /\ MixtureToCO2("HFC407a", "AR4GWP100")
  /\ AllHaveFactors("HFC407a", "AR4GWP100")
  /\ Returned(<<2107, 1>>)

\* the transformations of a metric's context that start or end at the
\* dimension of a species, in any of the four shapes
TransformationsOf(species, metric) ==
  {t \in contexts[metric] :
     ("[" \o species \o "]") \in DOMAIN t.src \cup DOMAIN t.dst}

C15_NaNWitness ==
  /\ MixtureToCO2("CFC400", "SARGWP100")
  /\ Cell("CFC12", "SARGWP100")[1]
  /\ isnan(Cell("CFC12", "SARGWP100")[2])
  /\ TransformationsOf("CFC400", "SARGWP100") = {}
  /\ Raised("DimensionalityError")

\* the value _add_gwp_to_context registers for a factor of a species whose
\* unit is a base unit: the factor times the root factor of CO2, 12/44 C
ConvOf(factor) == RMul(factor, <<12, 44>>)

\* the metric's context holds for the mixture the factor synthesized from its
\* constituents
ReceivesSynthesized(mixture, metric) ==
  /\ AllHaveFactors(mixture, metric)
  /\ Let(ConvOf(WeightedFactor(mixture, metric)), LAMBDA conv :
       \E t \in contexts[metric] :
         t.conv = conv /\ ("[" \o mixture \o "]") \in DOMAIN t.src \cup DOMAIN t.dst)

\* the magnitudes of the constituents of one unit of the mixture sum to 1
SumIsOne(mixture) == SumOfFractions(MIXTURES[mixture]) = <<100, 1>>

\* C16 as stated: in every metric context a mixture receives a synthesized
\* factor if and only if every constituent has a tabulated factor for the
\* metric and the constituents' magnitudes sum to 1.
C16_IffFactorsAndSumOne ==
  \A mixture \in DOMAIN MIXTURES, metric \in MetricNames :
    contexts_added
      => (ReceivesSynthesized(mixture, metric)
            <=> (AllHaveFactors(mixture, metric) /\ SumIsOne(mixture)))

\* C16, amended: in every metric context a mixture receives a synthesized
\* factor if and only if every constituent has a tabulated factor for the
\* metric that is not NaN; the sum of the magnitudes is not looked at, and
\* without the synthesized factor the context holds for the mixture nothing
\* but what a row of the table for the mixture itself gives.
C16_IffFactors ==
  \A mixture \in DOMAIN MIXTURES, metric \in MetricNames :
    contexts_added
      => IF AllHaveFactors(mixture, metric)
           THEN ReceivesSynthesized(mixture, metric)
           ELSE \A t \in TransformationsOf(mixture, metric) :
                  /\ Cell(mixture, metric)[1]
                  /\ t.conv = ConvOf(Cell(mixture, metric)[2])

\* the fractions of CFC400 sum to 90 and AR4GWP100 holds for CFC400 the
\* factor 0.5 * 10900 + 0.4 * 10000 = 9450
C16_Witness ==
  /\ contexts_added
  /\ ~SumIsOne("CFC400")
  /\ AllHaveFactors("CFC400", "AR4GWP100")
  /\ \E t \in TransformationsOf("CFC400", "AR4GWP100") : t.conv = ConvOf(<<9450, 1>>)

\* the labels of the rows of the registry's table
RowLabels ==
  {MetricFrame(metric_conversions).rows[k].label :
     k \in 1..Len(MetricFrame(metric_conversions).rows)}

\* C17 as stated: a mixture that has a row of its own in the table keeps the
\* tabulated factor: the transformation registered for it in the metric's
\* context is the tabulated one, and 1 mixture converts to that many CO2.
C17_TabulatedNotReplaced ==
  \A mixture \in DOMAIN MIXTURES \cap RowLabels, metric \in MetricNames :
    (contexts_added /\ HasFactor(mixture, metric))
      => /\ \A t \in TransformationsOf(mixture, metric) :
              t.conv = ConvOf(Cell(mixture, metric)[2])
         /\ MixtureToCO2(mixture, metric) => Returned(Cell(mixture, metric)[2])

\* the table gives HFC407a the factor 2000 and 1 HFC407a was converted to CO2
\* under Tabulated100: it gave the factor synthesized from the constituents
C17_SynthesizedReturned ==
  /\ MixtureToCO2("HFC407a", "Tabulated100")
  /\ Cell("HFC407a", "Tabulated100") = <<TRUE, <<2000, 1>>>>
  /\ Returned(<<2107, 1>>)

\* C18 as stated: a NaN cell of the table registers no transformation for
\* its species in the metric's context, and converting the species to CO2
\* under the metric raises DimensionalityError.
C18_NaNCellIsNoData ==
  \A species \in RowLabels, metric \in MetricNames :
    (contexts_added /\ isnan(Cell(species, metric)[2]))
      => /\ TransformationsOf(species, metric) = {}
         /\ (Asked(species, "CO2") /\ last.ctx = <<metric>>)
              => Raised("DimensionalityError")

\* the cell of CFC12 under SARGWP100 is NaN and 1 CFC12 was converted to CO2
\* under SARGWP100: no error, and the magnitude returned is NaN
C18_NaNReturned ==
  /\ Asked("CFC12", "CO2")
  /\ last.ctx = <<"SARGWP100">>
  /\ isnan(Cell("CFC12", "SARGWP100")[2])
  /\ Raised("")
  /\ isnan(last.m)

\* the last call was add_standards() on a registry that had every unit of
\* add_standards() already: a second or later call
CalledAgain == last.op = "add_standards" /\ last.exp = Len(StandardDefs)

UpperResolves ==
  \A x \in GasSymbols :
    /\ Defined(StandardUnits, U(Upper(x)))
    /\ get_root_units(StandardUnits, U(Upper(x))) = get_root_units(StandardUnits, U(x))

\* C20: for every species or mixture symbol X that add_standards() registers,
\* X.upper() is a unit of the registry and 1 X.upper() converts to X with the
\* magnitude 1, whatever contexts are active.
C20_UpperCaseAlias ==
  StandardsAdded
    => /\ UpperResolves
       /\ last.op = "to" => \A x \in GasSymbols : Asked(Upper(x), x) => Returned(One)

\* 1 HFC407A was converted to HFC407a and gave 1
C20_Witness ==
  /\ StandardsAdded
  /\ Asked("HFC407A", "HFC407a")
  /\ Returned(One)

\* the symbols of add_standards() and their upper case spellings
JointSymbols == GasSymbols \cup {Upper(x) : x \in GasSymbols}

\* in the registry add_standards() leaves, gX is g * X and tX is t * X for
\* every symbol X and its upper case spelling
JointResolves ==
  \A x \in JointSymbols :
    /\ Defined(StandardUnits, U("g" \o x))
    /\ Defined(StandardUnits, U("t" \o x))
    /\ get_root_units(StandardUnits, U("g" \o x))
         = get_root_units(StandardUnits, UCMul(U("g"), U(x)))
    /\ get_root_units(StandardUnits, U("t" \o x))
         = get_root_units(StandardUnits, UCMul(U("t"), U(x)))

\* C21: for every species or mixture symbol X of add_standards() and for its
\* upper case spelling, gX = g * X and tX = t * X are units of the registry:
\* 1 tX converts to 10^6 gX, and joint units convert like their species, 1 tC
\* being 44/12 tCO2.
C21_JointUnits ==
  StandardsAdded
    => /\ JointResolves
       /\ last.op = "to"
            => /\ \A x \in JointSymbols :
                    Asked("t" \o x, "g" \o x) => Returned(<<1000000, 1>>)
               /\ Asked("tC", "tCO2") => Returned(Norm(44, 12))

\* 1 tHFC407A was converted to gHFC407A and gave 10^6
C21_Witness ==
  /\ StandardsAdded
  /\ Asked("tHFC407A", "gHFC407A")
  /\ Returned(<<1000000, 1>>)

\* 1 tC was converted to tCO2 and gave 44/12
C21_CarbonWitness ==
  /\ StandardsAdded
  /\ Asked("tC", "tCO2")
  /\ Returned(<<11, 3>>)

\* the entries of the gas table that give a symbol as a factor times a unit
DerivedGases ==
  {STANDARD_GASES[i] : i \in {k \in 1..Len(STANDARD_GASES) : ~STANDARD_GASES[k].isstr}}

\* C22 as stated: a species defined as factor * base_unit has a dimension tag
\* of its own, distinct from the dimension tag of the base unit.
C22_OwnDimensionTag ==
  StandardsAdded
    => \A e \in DerivedGases :
         get_dimensionality(units, U(e.symbol)) # get_dimensionality(units, U(e.ref))

\* in the registry add_standards() leaves, a symbol given as factor * unit has
\* the dimensionality of that unit and the factor as its size in it
DerivedShareDimension ==
  \A e \in DerivedGases :
    /\ get_dimensionality(StandardUnits, U(e.symbol))
         = get_dimensionality(StandardUnits, U(e.ref))
    /\ get_root_units(StandardUnits, U(e.symbol)).f
         = RMul(e.f, get_root_units(StandardUnits, U(e.ref)).f)

\* C22, amended: a species defined as factor * base_unit has no dimension tag
\* of its own: it has the dimension of the base unit, and converts to it by
\* the factor with no context active (1 CO2 is 12/44 C).
C22_DimensionOfBase ==
  StandardsAdded
    => /\ DerivedShareDimension
       /\ (last.op = "to" /\ last.ctx = <<>>)
            => \A e \in DerivedGases :
                 Asked(e.symbol, e.ref) => Returned(Norm(e.f[1], e.f[2]))

\* 1 CO2 was converted to C with no context active and gave 12/44
C22_Witness ==
  /\ StandardsAdded
  /\ Asked("CO2", "C")
  /\ last.ctx = <<>>
  /\ get_dimensionality(units, U("CO2")) = U("[carbon]")
  /\ Returned(<<3, 11>>)

\* the rows of a table that are not rows of a mixture, per metric, each as the
\* dimension of the row's label and factor * (magnitude of CO2 in base units)
\* / (magnitude of the label in base units)
ExpectedOfRows ==
  [mc \in {"None", "Custom", "Tabulated"} |->
     [metric \in Range(MetricFrame(mc).columns) |->
        { << get_dimensionality(StandardUnits, U(MetricFrame(mc).rows[k].label)),
             RDiv(RMul(CellIn(mc, MetricFrame(mc).rows[k].label, metric)[2],
                       get_root_units(StandardUnits, U("CO2")).f),
                  get_root_units(StandardUnits, U(MetricFrame(mc).rows[k].label)).f) >> :
            k \in {j \in 1..Len(MetricFrame(mc).rows) :
                     MetricFrame(mc).rows[j].label \notin Range(MixtureNames)} }]]

\* the species with a row of their own, no mixture, whose cell under the
\* metric is a number
Tabulated(metric) == {x \in RowLabels \ Range(MixtureNames) : HasFactor(x, metric)}

\* C23: for every (species, factor) entry of a metric table the context holds,
\* between the dimension of the species and [carbon], the value factor *
\* (magnitude of CO2 in base units) / (magnitude of the species in base
\* units); 1 species is then factor CO2 and 1 CO2 is 1 / factor species, and a
\* unit derived from the species scales with it: with N2O = 298 under
\* AR4GWP100, 1 N2O is 298 CO2 and 1 N2ON is 44 * 298 / 28 CO2.
C23_ConversionValue ==
  /\ contexts_added
       => \A metric \in MetricNames :
            \A e \in ExpectedOfRows[metric_conversions][metric] :
              \E t \in contexts[metric] :
                /\ t.src = e[1]
                /\ t.dst = U("[carbon]")
                /\ t.conv = e[2]
                /\ t.forward \/ e[1] = U("[carbon]")
  /\ (last.op = "to" /\ Len(last.ctx) = 1 /\ last.ctx[1] \in MetricNames)
       => /\ \A x \in Tabulated(last.ctx[1]) :
               /\ Asked(x, "CO2") => Returned(Cell(x, last.ctx[1])[2])
               /\ Asked("CO2", x) => Returned(RInv(Cell(x, last.ctx[1])[2]))
          /\ "N2O" \in Tabulated(last.ctx[1])
               => /\ Asked("N2ON", "CO2")
                       => Returned(RMul(Norm(44, 28), Cell("N2O", last.ctx[1])[2]))
                  /\ Asked("CO2", "N2ON")
                       => Returned(RInv(RMul(Norm(44, 28), Cell("N2O", last.ctx[1])[2])))
          /\ last.ctx[1] = "AR4GWP100"
               => /\ Asked("N2O", "CO2") => Returned(<<298, 1>>)
                  /\ Asked("N2ON", "CO2") => Returned(Norm(44 * 298, 28))

\* 1 N2ON was converted to CO2 under AR4GWP100 and gave 44 * 298 / 28
C23_Witness ==
  /\ Asked("N2ON", "CO2")
  /\ last.ctx = <<"AR4GWP100">>
  /\ Returned(<<3278, 7>>)

\* 1 CO2 was converted to N2O under AR4GWP100 and gave 1 / 298
C23_ReciprocalWitness ==
  /\ Asked("CO2", "N2O")
  /\ last.ctx = <<"AR4GWP100">>
  /\ Returned(<<1, 298>>)

\* C24: a registry constructed with a metric_conversions table builds one
\* metric context per column of that table, named after the column and
\* holding the column's factors (Custom1: CH4 -> CO2 = 20 and N2O -> CO2 =
\* 341; Custom2: 25 and 300), and none of the bundled table's contexts; the
\* bundled table is loaded when no table was given.
C24_GivenTableOnly ==
  /\ contexts_added
       => /\ DOMAIN contexts = Pairwise \cup MetricNames
          /\ MetricNames = Range(IF metric_conversions = "None" THEN BundledColumns
                                 ELSE MetricFrame(metric_conversions).columns)
          /\ metric_conversions # "None"
               => Range(BundledColumns) \cap DOMAIN contexts = {}
  /\ metric_conversions # "None"
       => \A i \in 1..Len(active) : active[i] \notin Range(BundledColumns)
  /\ (last.op = "to" /\ metric_conversions = "Custom")
       => /\ last.ctx = <<"Custom1">>
               => /\ Asked("CH4", "CO2") => Returned(<<20, 1>>)
                  /\ Asked("N2O", "CO2") => Returned(<<341, 1>>)
          /\ last.ctx = <<"Custom2">>
               => /\ Asked("CH4", "CO2") => Returned(<<25, 1>>)
                  /\ Asked("N2O", "CO2") => Returned(<<300, 1>>)
  /\ (last.op = "to" /\ metric_conversions = "None" /\ last.ctx = <<"SARGWP100">>)
       => /\ Asked("CH4", "CO2") => Returned(<<21, 1>>)
          /\ Asked("N2O", "CO2") => Returned(<<310, 1>>)

\* in a registry given the table of Custom1 and Custom2, 1 N2O was converted
\* to CO2 under Custom1 and gave 341
C24_Witness ==
  /\ metric_conversions = "Custom"
  /\ Asked("N2O", "CO2")
  /\ last.ctx = <<"Custom1">>
  /\ Returned(<<341, 1>>)

\* in a registry given a table, a context of the bundled table was asked for
\* after the contexts were built and is not known
C24_BundledWitness ==
  /\ metric_conversions = "Custom"
  /\ contexts_added
  /\ last.op = "context"
  /\ last.ctx = <<"AR4GWP100">>
  /\ Raised("KeyError")

\* the string with its hyphen or underscore taken out
Stripped(sp) == sp.left \o sp.right

\* C25 as stated: the lookup strips all hyphens and underscores from the unit
\* string before parsing, so a spelling with a hyphen or an underscore
\* resolves to the unit of the spelling without it.
C25_SeparatorsStripped ==
  last.op = "parse"
    => \A sp \in Spellings :
         last.src = U(Written(sp))
           => /\ last.err = (IF Stripped(sp) \in DOMAIN units THEN ""
                             ELSE "UndefinedUnitError")
              /\ last.err = ""
                   => /\ last.m = One
                      /\ get_root_units(units, last.dst)
                           = get_root_units(units, U(Stripped(sp)))

\* registry("C_O2") was asked for where CO2 is a unit, and the name is not
\* defined
C25_UnderscoreKept ==
  /\ StandardsAdded
  /\ last.op = "parse"
  /\ last.src = U("C_O2")
  /\ "CO2" \in DOMAIN units
  /\ Raised("UndefinedUnitError")

\* registry("carbon_dioxide") resolved to the alias of CO2 although
\* "carbondioxide" is no unit
C25_AliasWithUnderscore ==
  /\ StandardsAdded
  /\ last.op = "parse"
  /\ last.src = U("carbon_dioxide")
  /\ "carbondioxide" \notin DOMAIN units
  /\ last.err = ""
  /\ get_root_units(units, last.dst) = get_root_units(units, U("CO2"))

\* C26: activating a context only adds conversions: a conversion that
\* succeeds with no context active succeeds with the same result while any
\* built contexts are active (1 CO2 is 12/44 C and 1 tC is 10^6 gC under every
\* context), also under a metric context that holds a transformation from
\* [carbon] to [carbon] because its table has a row for CO2.
C26_ContextsOnlyAdd ==
  (last.op = "to" /\ last.ctx # <<>> /\ Defined(units, last.src) /\ Defined(units, last.dst))
    => /\ plain_convert(units, Q(One, last.src), last.dst).err = ""
            => /\ last.err = ""
               /\ last.m = plain_convert(units, Q(One, last.src), last.dst).m
       /\ Asked("CO2", "C") => Returned(<<3, 11>>)
       /\ Asked("tC", "gC") => Returned(<<1000000, 1>>)

\* 1 CO2 was converted to C and gave 12/44 while AR4GWP100, whose table has a
\* row for CO2 and which therefore transforms [carbon] to [carbon], was active
C26_Witness ==
  /\ Asked("CO2", "C")
  /\ last.ctx = <<"AR4GWP100">>
  /\ \E t \in contexts["AR4GWP100"] : t.src = U("[carbon]") /\ t.dst = U("[carbon]")
  /\ Returned(<<3, 11>>)

\* 1 tC was converted to gC and gave 10^6 inside two nested context blocks
C26_NestedWitness ==
  /\ Asked("tC", "gC")
  /\ Len(last.ctx) = 2
  /\ Returned(<<1000000, 1>>)

\* C27: _contexts_added is true only after _add_contexts has completed: when
\* it raises part-way, on a table label that is no unit, the flag stays
\* false, the contexts registered before the failure (the four pairwise
\* ones) remain, no context is activated, and the next enable_contexts call
\* runs the construction from its beginning again (it registers the four
\* pairwise contexts anew and raises the same error).
C27_FlagOnlyAfterCompletion ==
  /\ contexts_added
       => /\ AllBuilt
          /\ LabelsKnown
          /\ StandardAttributes \subseteq DOMAIN units
  /\ (last.op = "context" /\ ~Raised("KeyError"))
       => /\ ~contexts_added
          /\ active = <<>>
          /\ builds = 0
          /\ Raised("AttributeError") => contexts = NoContexts /\ last.exp = 0
          /\ Raised("UndefinedUnitError")
               => /\ contexts = add_pairwise_contexts(NoContexts)
                  /\ last.exp \in {0, Cardinality(Pairwise)}
  /\ (~LabelsKnown /\ StandardsAdded /\ last.op = "context")
       => Raised("UndefinedUnitError")

\* enable_contexts raised on the label Halon9999 for the second time: its run
\* of _add_contexts registered the four pairwise contexts again, they are
\* all the registry holds, the flag is false and nothing is active
C27_Witness ==
  /\ metric_conversions = "Unknown"
  /\ last.op = "context"
  /\ Raised("UndefinedUnitError")
  /\ last.exp = Cardinality(Pairwise)
  /\ DOMAIN contexts = Pairwise
  /\ ~contexts_added
  /\ active = <<>>

\* the first such failure: no context was registered before it
C27_FirstWitness ==
  /\ metric_conversions = "Unknown"
  /\ last.op = "context"
  /\ Raised("UndefinedUnitError")
  /\ last.exp = 0
  /\ DOMAIN contexts = Pairwise
  /\ ~contexts_added

\* C28: the build-once state belongs to the registry instance: a registry has
\* its flag set and holds contexts only through a construction of its own,
\* which builds the contexts of its own table, so activating a context on one
\* registry leaves the flag and the context table of every other registry,
\* the module-level unit_registry included, as they were.
C28_PerInstance ==
  /\ \A r \in Registries :
       /\ contexts_added[r] <=> builds[r] = 1
       /\ builds[r] <= 1
       /\ ~contexts_added[r] => contexts[r] = NoContexts /\ active[r] = <<>>
       /\ contexts_added[r]
            => DOMAIN contexts[r]
                 = Pairwise \cup Range(MetricFrame(RegistryTables[r]).columns)
  /\ (last.call.op = "to" /\ last.call.src = U("CH4") /\ last.call.dst = U("CO2"))
       => /\ (last.reg = "unit_registry" /\ last.call.ctx = <<"AR4GWP100">>)
               => last.call.err = "" /\ last.call.m = <<25, 1>>
          /\ (last.reg = "custom" /\ last.call.ctx = <<"Custom1">>)
               => last.call.err = "" /\ last.call.m = <<20, 1>>
  /\ (last.call.op = "context" /\ units[last.reg] = StandardUnits)
       => /\ last.call.err = "KeyError"
          /\ last.call.ctx[1] \notin DOMAIN contexts[last.reg]
          /\ last.call.ctx[1] \in {"AR4GWP100", "Custom1"}

\* the custom registry has built its contexts and converted CH4 to CO2 under
\* Custom1, and the module-level registry still has no context and its flag
\* is false
C28_Witness ==
  /\ last.reg = "custom"
  /\ last.call.op = "to"
  /\ last.call.ctx = <<"Custom1">>
  /\ last.call.m = <<20, 1>>
  /\ contexts_added["custom"]
  /\ ~contexts_added["unit_registry"]
  /\ contexts["unit_registry"] = NoContexts

\* both registries have built their contexts, each those of its own table
C28_BothWitness ==
  /\ contexts_added["custom"]
  /\ contexts_added["unit_registry"]
  /\ "Custom1" \in DOMAIN contexts["custom"]
  /\ "Custom1" \notin DOMAIN contexts["unit_registry"]
  /\ "AR4GWP100" \in DOMAIN contexts["unit_registry"]
  /\ "AR4GWP100" \notin DOMAIN contexts["custom"]

\* the define() calls add_standards() makes for the gas table and for the
\* mixture table, in order
TableDefs == add_gases(STANDARD_GASES) \o add_gases(MixtureGases(MixtureNames))

\* the names that more than one of those calls defines
DefinedTwice ==
  {TableDefs[i].name : i \in {k \in 1..Len(TableDefs) :
                                \E j \in 1..(k - 1) : TableDefs[j].name = TableDefs[k].name}}

\* C29 as stated: a run of add_standards() defines no unit name more than
\* once: the symbols, aliases, upper case aliases and g/t joint units of the
\* gas table and the mixture table are pairwise distinct, the upper case
\* aliases of NOx and nox included.
C29_NamesDistinct ==
  last.op = "add_standards"
    => /\ DefinedTwice = {}
       /\ \A i, j \in 1..Len(TableDefs) :
            (TableDefs[i].name = "NOX" /\ TableDefs[j].name = "NOX") => i = j

\* add_standards() has returned: it defined NOX, gNOX and tNOX once for the
\* entry NOx and once more for the entry nox, and NOX is left as the alias
\* of nox
C29_NOXDefinedTwice ==
  /\ last.op = "add_standards"
  /\ Raised("")
  /\ DefinedTwice = {"NOX", "gNOX", "tNOX"}
  /\ units["NOX"] = DerivedDef(One, U("nox"))

Reverse(seq) == [k \in 1..Len(seq) |-> seq[Len(seq) + 1 - k]]

\* the context _add_metric_conversions_from_df builds for a metric from the
\* registry's table with its rows in the opposite order
BuiltFromReversed(metric) ==
  ColumnContext(units,
                Frame(MetricFrame(metric_conversions).columns,
                      Reverse(MetricFrame(metric_conversions).rows)),
                ColumnIn(metric_conversions, metric))

\* C30: under one active metric context any two species that have a row and
\* a factor under the metric convert into each other, through [carbon], by
\* the ratio of their factors: 1 a is F_a / F_b of b (CH4 -> N2O under
\* AR4GWP100 is 25/298); the context built does not depend on the order in
\* which the rows were registered.  The species are those of the tables'
\* rows that are no mixtures, each of a dimension of its own.
C30_RatioOfFactors ==
  /\ (last.op = "to" /\ Len(last.ctx) = 1 /\ last.ctx[1] \in MetricNames)
       => /\ \A a \in Tabulated(last.ctx[1]), b \in Tabulated(last.ctx[1]) :
               Asked(a, b)
                 => Returned(RDiv(Cell(a, last.ctx[1])[2], Cell(b, last.ctx[1])[2]))
          /\ (last.ctx[1] = "AR4GWP100" /\ Asked("CH4", "N2O")) => Returned(<<25, 298>>)
  /\ (contexts_added /\ last = Idle /\ blocks = <<>>)
       => \A metric \in MetricNames : contexts[metric] = BuiltFromReversed(metric)

\* 1 CH4 was converted to N2O under AR4GWP100 and gave 25/298
C30_Witness ==
  /\ Asked("CH4", "N2O")
  /\ last.ctx = <<"AR4GWP100">>
  /\ Returned(<<25, 298>>)

\* the contexts are built, from a table of several rows, and no call is
\* outstanding
C30_OrderWitness ==
  /\ contexts_added
  /\ last = Idle
  /\ blocks = <<>>
  /\ metric_conversions = "None"
  /\ contexts["SARGWP100"] = BuiltFromReversed("SARGWP100")
  /\ Reverse(MetricFrame(metric_conversions).rows) # MetricFrame(metric_conversions).rows

====
